---- MODULE Spec2Model ----
(***************************************************************************)
(* Governance dashboard: the vote timeline and the role eligibility of the *)
(* detail page (src/pages/governance/[hash].tsx), the table's sort /       *)
(* filter / priority engine and the API normalizer (src/services/api.ts).  *)
(*                                                                         *)
(* JavaScript values are modelled as follows.                              *)
(*   undefined / null   the empty tuple  Undefined                         *)
(*   a present value v  the one-element tuple  Some(v)                     *)
(*   a string of text   a sequence of one-character strings                *)
(*   a Date             a record [valid, ms]; an Invalid Date has          *)
(*                      valid = FALSE and getTime() = NaN                  *)
(***************************************************************************)
EXTENDS Integers, Sequences, FiniteSets, TLC

VARIABLES
    pc,                 \* which view is mounted and whether it has rendered
    allVotes,           \* [hash].tsx: allVotes (votes ++ ccVotes of selectedAction)
    curveRoleFilter,    \* [hash].tsx: useState<RoleFilter>("All")
    votesWithDates,     \* [hash].tsx: the sorted votesWithDates of the last render
    voteTimelineData,   \* [hash].tsx: the memoised timeline points
    actions,            \* state.governance.actions
    selectedTypes,      \* state.governance.filters.selectedTypes
    selectedStatuses,   \* state.governance.filters.selectedStatuses
    searchQuery,        \* GovernanceTable: useState("")
    sortedActions,      \* GovernanceTable: memoised sortedActions
    candidateList,      \* GovernanceTable: the list handed to applySearch
    filteredActions,    \* GovernanceTable: memoised filteredActions
    rawAction,          \* the raw API record handed to the normalizer
    transformed,        \* what the normalizer returned for it
    retransformed,      \* what the normalizer returned for its own result
    selectedAction,     \* state.governance.selectedAction of the detail page
    eligibleRoles,      \* [hash].tsx: the memoised eligibleRoles
    allowRoles,         \* [hash].tsx: allowDRep, allowSPO, allowCC
    rowAction,          \* GovernanceTable: the action of the row rendered
    rowStats,           \* GovernanceTable: the abstain figures of that row
    ccAbstainStats,     \* [hash].tsx: ccAbstainStats
    isLoadingDetail,    \* state.governance.isLoadingDetail
    detailError,        \* state.governance.detailError
    detailRequests      \* loadGovernanceActionDetail thunks dispatched so far

timelineVars == <<allVotes, curveRoleFilter, votesWithDates, voteTimelineData>>
tableVars == <<actions, selectedTypes, selectedStatuses, searchQuery,
               sortedActions, candidateList, filteredActions>>
normalizerVars == <<rawAction, transformed, retransformed>>
rolesVars == <<selectedAction, eligibleRoles, allowRoles>>
rowVars == <<rowAction, rowStats, ccAbstainStats>>
sliceVars == <<isLoadingDetail, detailError, detailRequests>>
vars == <<pc, timelineVars, tableVars, normalizerVars, rolesVars, rowVars,
          sliceVars>>

----------------------------------------------------------------------------
(* Bounds of the model *)

MaxVotes == 3
MaxTime == 2
MaxActions == 3
MaxEpoch == 1

----------------------------------------------------------------------------
(* JavaScript optional values *)

Undefined == <<>>
Some(v) == <<v>>
Val(o) == o[1]

Front(s) == SubSeq(s, 1, Len(s) - 1)
Last(s) == s[Len(s)]

(* every arrangement of the elements of s *)
Arrangements(s) ==
    {[i \in 1..Len(s) |-> s[p[i]]] :
        p \in {q \in [1..Len(s) -> 1..Len(s)] :
                  \A i, j \in 1..Len(s) : q[i] = q[j] => i = j}}

----------------------------------------------------------------------------
(* Timeline aggregator: [hash].tsx, voteTimelineData *)

VoterTypes == {"DRep", "SPO", "CC"}
RoleFilters == {"All"} \cup VoterTypes

(* votedAt strings: "" , a text no Date parses, an ISO time stamp of time t *)
EmptyText == [kind |-> "empty", t |-> 0]
BadText == [kind |-> "text", t |-> 0]
IsoText(t) == [kind |-> "iso", t |-> t]

(* new Date(s) for a non-empty string s *)
NewDate(s) ==
    IF s.kind = "iso" THEN [valid |-> TRUE, ms |-> s.t]
    ELSE [valid |-> FALSE, ms |-> 0]

(* line 281: vote.votedAt ? new Date(vote.votedAt) : null *)
DateOf(vote) ==
    IF vote.votedAt = Undefined \/ Val(vote.votedAt).kind = "empty"
    THEN Undefined
    ELSE Some(NewDate(Val(vote.votedAt)))

(* lines 272-275 *)
roleFilteredVotes(votes, filter) ==
    IF filter = "All" THEN votes
    ELSE LET keep(v) == v.voterType = filter IN SelectSeq(votes, keep)

(* lines 279-283: .map((vote, index) => ({...vote, date, fallbackIndex})) *)
WithDates(votes) ==
    [i \in 1..Len(votes) |->
        [voterType |-> votes[i].voterType,
         vote |-> votes[i].vote,
         votingPowerAda |-> votes[i].votingPowerAda,
         votedAt |-> votes[i].votedAt,
         date |-> DateOf(votes[i]),
         fallbackIndex |-> i - 1]]

(* a comparator with the two date tests exchanged: undated records first *)
compareVotesUndatedFirst(a, b) ==
    IF a.date # Undefined /\ b.date # Undefined
    THEN IF Val(a.date).valid /\ Val(b.date).valid
         THEN Val(a.date).ms - Val(b.date).ms
         ELSE 0
    ELSE IF a.date # Undefined THEN 1
    ELSE IF b.date # Undefined THEN -1
    ELSE a.fallbackIndex - b.fallbackIndex

(* lines 284-289, the comparator.  A difference with an Invalid Date is NaN, *)
(* which Array.prototype.sort reads as +0.                                   *)
compareVotes(a, b) ==
    IF a.date # Undefined /\ b.date # Undefined
    THEN IF Val(a.date).valid /\ Val(b.date).valid
         THEN Val(a.date).ms - Val(b.date).ms
         ELSE 0
    ELSE IF a.date # Undefined THEN -1
    ELSE IF b.date # Undefined THEN 1
    ELSE a.fallbackIndex - b.fallbackIndex

(* ECMAScript: a consistent comparator for the elements of s *)
ConsistentVoteComparator(s) ==
    LET E == {s[i] : i \in 1..Len(s)} IN
    /\ \A a \in E : compareVotes(a, a) = 0
    /\ \A a, b \in E :
          /\ (compareVotes(a, b) < 0) = (compareVotes(b, a) > 0)
          /\ (compareVotes(a, b) = 0) = (compareVotes(b, a) = 0)
    /\ \A a, b, c \in E :
          /\ compareVotes(a, b) = 0 /\ compareVotes(b, c) = 0
                => compareVotes(a, c) = 0
          /\ compareVotes(a, b) < 0 /\ compareVotes(b, c) < 0
                => compareVotes(a, c) < 0
          /\ compareVotes(a, b) < 0 /\ compareVotes(b, c) = 0
                => compareVotes(a, c) < 0
          /\ compareVotes(a, b) = 0 /\ compareVotes(b, c) < 0
                => compareVotes(a, c) < 0

(* the stable sort of s under compareVotes, by insertion *)
RECURSIVE InsertVote(_, _)
InsertVote(s, x) ==
    IF s = <<>> THEN <<x>>
    ELSE IF compareVotes(Last(s), x) > 0
         THEN Append(InsertVote(Front(s), x), Last(s))
         ELSE Append(s, x)

RECURSIVE StableSortVotes(_)
StableSortVotes(s) ==
    IF s = <<>> THEN <<>>
    ELSE InsertVote(StableSortVotes(Front(s)), Last(s))

(* line 284: Array.prototype.sort.  The sort is stable; with a comparator *)
(* that is not consistent the order is implementation-defined.            *)
SortVotesOutcomes(s) ==
    IF ConsistentVoteComparator(s) THEN {StableSortVotes(s)}
    ELSE Arrangements(s)

(* The powers of the timeline are JavaScript numbers: IEEE 754 doubles with  *)
(* 53 significant bits.  The model holds the whole numbers h * 2^53 + l with *)
(* l < 2^20, written as the integer h * Unit53 + l; the writing keeps the    *)
(* order of the numbers, and the exact sum of two numbers is the sum of      *)
(* their writings.                                                           *)
Unit53 == 2^20

(* the distance between neighbouring doubles in the binade of h * 2^53:     *)
(* 1 below 2^53, 2 from 2^53, 4 from 2^54, ...                              *)
RECURSIVE Ulp(_)
Ulp(h) == IF h = 0 THEN 1 ELSE 2 * Ulp(h \div 2)

(* the double nearest to the whole number x, ties to the even significand *)
RoundToDouble(x) ==
    LET h == x \div Unit53
        l == x % Unit53
        u == Ulp(h)
        q == l \div u
        r == l % u
    IN IF r = 0 THEN x
       ELSE IF 2 * r > u \/ (2 * r = u /\ q % 2 = 1)
            THEN h * Unit53 + (q + 1) * u
            ELSE h * Unit53 + q * u

(* lines 303, 307, 311: a += b on numbers *)
NumberAdd(a, b) == RoundToDouble(a + b)

ZeroPoint ==
    [label |-> [kind |-> "none", n |-> 0],
     yesCount |-> 0, noCount |-> 0, abstainCount |-> 0,
     yesPower |-> 0, noPower |-> 0, abstainPower |-> 0]

(* a record without a voting power weighing 1 *)
PowerOfAbsentAsOne(vote) ==
    IF vote.votingPowerAda = Undefined THEN 1 ELSE Val(vote.votingPowerAda)

(* line 299: vote.votingPowerAda || 0 *)
PowerOf(vote) ==
    IF vote.votingPowerAda = Undefined THEN 0 ELSE Val(vote.votingPowerAda)

(* lines 316-324: the formatted date, or `Vote ${index + 1}` *)
LabelOf(vote, index) ==
    IF vote.date # Undefined /\ Val(vote.date).valid
    THEN [kind |-> "date", n |-> Val(vote.date).ms]
    ELSE [kind |-> "vote", n |-> index + 1]

(* the switch with the default branch counting nothing but "Abstain" *)
TimelineStepAbstainOnly(acc, vote, index) ==
    LET power == PowerOf(vote) IN
    [label |-> LabelOf(vote, index),
     yesCount |-> acc.yesCount + (IF vote.vote = "Yes" THEN 1 ELSE 0),
     noCount |-> acc.noCount + (IF vote.vote = "No" THEN 1 ELSE 0),
     abstainCount |-> acc.abstainCount + (IF vote.vote = "Abstain" THEN 1 ELSE 0),
     yesPower |-> NumberAdd(acc.yesPower,
                        IF vote.vote = "Yes" THEN power ELSE 0),
     noPower |-> NumberAdd(acc.noPower,
                        IF vote.vote = "No" THEN power ELSE 0),
     abstainPower |-> NumberAdd(acc.abstainPower,
                        IF vote.vote = "Abstain" THEN power ELSE 0)]

(* the callback returning the vote's own numbers instead of the running totals *)
TimelineStepNotCumulative(acc, vote, index) ==
    LET power == PowerOf(vote) IN
    [label |-> LabelOf(vote, index),
     yesCount |-> IF vote.vote = "Yes" THEN 1 ELSE 0,
     noCount |-> IF vote.vote = "No" THEN 1 ELSE 0,
     abstainCount |-> IF vote.vote \notin {"Yes", "No"} THEN 1 ELSE 0,
     yesPower |-> IF vote.vote = "Yes" THEN power ELSE 0,
     noPower |-> IF vote.vote = "No" THEN power ELSE 0,
     abstainPower |-> IF vote.vote \notin {"Yes", "No"} THEN power ELSE 0]

(* lines 298-335: one step of the map callback; acc holds the six running *)
(* totals before the step, the result is the point it returns             *)
TimelineStep(acc, vote, index) ==
    LET power == PowerOf(vote) IN
    [label |-> LabelOf(vote, index),
     yesCount |-> acc.yesCount + (IF vote.vote = "Yes" THEN 1 ELSE 0),
     noCount |-> acc.noCount + (IF vote.vote = "No" THEN 1 ELSE 0),
     abstainCount |-> acc.abstainCount
                        + (IF vote.vote \notin {"Yes", "No"} THEN 1 ELSE 0),
     yesPower |-> NumberAdd(acc.yesPower,
                        IF vote.vote = "Yes" THEN power ELSE 0),
     noPower |-> NumberAdd(acc.noPower,
                        IF vote.vote = "No" THEN power ELSE 0),
     abstainPower |-> NumberAdd(acc.abstainPower,
                        IF vote.vote \notin {"Yes", "No"} THEN power ELSE 0)]

(* lines 291-335: the six accumulators and the map over the sorted votes *)
RECURSIVE TimelinePoints(_)
TimelinePoints(sorted) ==
    IF sorted = <<>> THEN <<>>
    ELSE LET before == TimelinePoints(Front(sorted))
             acc == IF before = <<>> THEN ZeroPoint ELSE Last(before)
         IN Append(before, TimelineStep(acc, Last(sorted), Len(sorted) - 1))

(* lines 271-336: the useMemo body.  Its results for the votes and the role *)
(* filter given: the sorted votesWithDates and the points mapped from them  *)
TimelineOutcomes(votes, filter) ==
    LET filtered == roleFilteredVotes(votes, filter) IN
    IF Len(filtered) = 0
    THEN {[sorted |-> <<>>, points |-> <<>>]}
    ELSE {[sorted |-> s, points |-> TimelinePoints(s)] :
             s \in SortVotesOutcomes(WithDates(filtered))}

----------------------------------------------------------------------------
(* The views that are not mounted hold their initial values *)

TimelineIdle ==
    /\ allVotes = <<>>
    /\ curveRoleFilter = "All"
    /\ votesWithDates = <<>>
    /\ voteTimelineData = <<>>

TableIdle ==
    /\ actions = <<>>
    /\ selectedTypes = <<>>
    /\ selectedStatuses = <<>>
    /\ searchQuery = <<>>
    /\ sortedActions = <<>>
    /\ candidateList = <<>>
    /\ filteredActions = <<>>

NormalizerIdle ==
    /\ rawAction = Undefined
    /\ transformed = Undefined
    /\ retransformed = Undefined

RolesIdle ==
    /\ selectedAction = Undefined
    /\ eligibleRoles = <<>>
    /\ allowRoles = Undefined

RowIdle ==
    /\ rowAction = Undefined
    /\ rowStats = Undefined
    /\ ccAbstainStats = Undefined

(* governanceSlice, initialState: lines 79, 83 *)
SliceIdle ==
    /\ isLoadingDetail = FALSE
    /\ detailError = Undefined
    /\ detailRequests = <<>>

----------------------------------------------------------------------------
(* The detail page's vote timeline as a state machine *)

(* vote records that differ in their time stamps *)
OrderVoteRecords ==
    [voterType : {"DRep", "CC"},
     vote : {"Yes"},
     votingPowerAda : {Undefined},
     votedAt : {Undefined, Some(EmptyText), Some(BadText)}
                 \cup {Some(IsoText(t)) : t \in 1..MaxTime}]

(* vote records that differ in their vote and voting power *)
TallyVoteRecords ==
    [voterType : {"DRep", "CC"},
     vote : {"Yes", "No", "Abstain", "yes"},
     votingPowerAda : {Undefined, Some(2)},
     votedAt : {Undefined}]

(* vote records that differ in vote, voting power and time stamp; the powers *)
(* are absent, 1 and 2^53                                                    *)
SumVoteRecords ==
    {[voterType |-> "DRep",
      vote |-> vote,
      votingPowerAda |-> cast[1],
      votedAt |-> cast[2]] :
        vote \in {"Yes", "No", "abstain"},
        cast \in {<<Undefined, Undefined>>,
                  <<Some(1), Undefined>>,
                  <<Some(Unit53), Undefined>>,
                  <<Some(1), Some(IsoText(1))>>,
                  <<Undefined, Some(IsoText(MaxTime))>>}}

InitTimeline(records) ==
    /\ pc = "mount"
    /\ \E k \in 0..MaxVotes : allVotes \in [1..k -> records]
    /\ curveRoleFilter = "All"
    /\ votesWithDates = <<>>
    /\ voteTimelineData = <<>>
    /\ TableIdle
    /\ NormalizerIdle
    /\ RolesIdle
    /\ RowIdle
    /\ SliceIdle

(* the first render of GovernanceDetail: voteTimelineData is computed *)
RenderTimeline ==
    /\ pc = "mount"
    /\ \E out \in TimelineOutcomes(allVotes, curveRoleFilter) :
          /\ votesWithDates' = out.sorted
          /\ voteTimelineData' = out.points
    /\ pc' = "rendered"
    /\ UNCHANGED <<allVotes, curveRoleFilter, tableVars, normalizerVars, rolesVars, rowVars, sliceVars>>

(* setCurveRoleFilter(role) and the render it causes *)
SetCurveRoleFilter(role) ==
    /\ pc = "rendered"
    /\ role # curveRoleFilter
    /\ curveRoleFilter' = role
    /\ \E out \in TimelineOutcomes(allVotes, role) :
          /\ votesWithDates' = out.sorted
          /\ voteTimelineData' = out.points
    /\ UNCHANGED <<pc, allVotes, tableVars, normalizerVars, rolesVars, rowVars, sliceVars>>

NextTimeline ==
    \/ RenderTimeline
    \/ \E role \in RoleFilters : SetCurveRoleFilter(role)

InitTimelineOrder == InitTimeline(OrderVoteRecords)
SpecTimelineOrder == InitTimelineOrder /\ [][NextTimeline]_vars

InitTimelineTally == InitTimeline(TallyVoteRecords)
SpecTimelineTally == InitTimelineTally /\ [][NextTimeline]_vars

InitTimelineSum == InitTimeline(SumVoteRecords)
SpecTimelineSum == InitTimelineSum /\ [][NextTimeline]_vars

----------------------------------------------------------------------------
(* Claims about the timeline *)

HasDate(v) == v.date # Undefined

(* every votedAt of the sorted (role-filtered) votes that is present and *)
(* not empty parsed to a valid date                                     *)
AllDatesParse ==
    \A i \in 1..Len(votesWithDates) :
        HasDate(votesWithDates[i]) => Val(votesWithDates[i].date).valid

UndatedKeepOrder(s) ==
    \A i, j \in 1..Len(s) :
        (i < j /\ ~HasDate(s[i]) /\ ~HasDate(s[j]))
            => s[i].fallbackIndex < s[j].fallbackIndex

DatedAscending(s) ==
    \A i, j \in 1..Len(s) :
        (i < j /\ HasDate(s[i]) /\ HasDate(s[j])
           /\ Val(s[i].date).valid /\ Val(s[j].date).valid)
            => Val(s[i].date).ms <= Val(s[j].date).ms

(* C1 as stated: in the sorted votes every record without a time stamp comes *)
(* before every record with one, the time-stamped records ascend, and the    *)
(* records without a time stamp keep their original order.  It is stated for *)
(* the lists whose present votedAt all parse, where "with a time stamp" has  *)
(* one reading only.                                                         *)
C1_UndatedFirst ==
    (pc = "rendered" /\ AllDatesParse) =>
        /\ \A i, j \in 1..Len(votesWithDates) :
              (~HasDate(votesWithDates[i]) /\ HasDate(votesWithDates[j])) => i < j
        /\ DatedAscending(votesWithDates)
        /\ UndatedKeepOrder(votesWithDates)

(* C1 amended: when every present votedAt parses to a valid date, every      *)
(* record with a time stamp comes before every record without one, the       *)
(* time-stamped records ascend, and the records without a time stamp keep    *)
(* their original order.                                                     *)
C1_DatedFirst ==
    (pc = "rendered" /\ AllDatesParse) =>
        /\ \A i, j \in 1..Len(votesWithDates) :
              (HasDate(votesWithDates[i]) /\ ~HasDate(votesWithDates[j])) => i < j
        /\ DatedAscending(votesWithDates)
        /\ UndatedKeepOrder(votesWithDates)

(* the sort moved a later time-stamped record in front of two undated ones *)
C1_Witness ==
    /\ pc = "rendered"
    /\ AllDatesParse
    /\ Len(votesWithDates) = 3
    /\ HasDate(votesWithDates[1]) /\ votesWithDates[1].fallbackIndex = 2
    /\ ~HasDate(votesWithDates[2]) /\ ~HasDate(votesWithDates[3])

CumulativeFields ==
    {"yesCount", "noCount", "abstainCount", "yesPower", "noPower", "abstainPower"}

(* C9: each of the six cumulative fields of timeline point k+1 is greater *)
(* than or equal to its value at point k.                                 *)
C9_Monotone ==
    pc = "rendered" =>
        \A k \in 1..(Len(voteTimelineData) - 1) :
            \A f \in CumulativeFields :
                voteTimelineData[k + 1][f] >= voteTimelineData[k][f]

(* a timeline of three points in which a count and a power grew twice *)
C9_Witness ==
    /\ pc = "rendered"
    /\ Len(voteTimelineData) = 3
    /\ voteTimelineData[1].yesPower > 0
    /\ voteTimelineData[2].yesPower > voteTimelineData[1].yesPower
    /\ voteTimelineData[3].noCount > voteTimelineData[2].noCount
    /\ voteTimelineData[3].yesPower = voteTimelineData[2].yesPower

(* the counts of timeline point k, those of point 0 being zero *)
CountsAt(k) ==
    IF k = 0 THEN [yes |-> 0, no |-> 0, abstain |-> 0]
    ELSE [yes |-> voteTimelineData[k].yesCount,
          no |-> voteTimelineData[k].noCount,
          abstain |-> voteTimelineData[k].abstainCount]

(* C10: the timeline has one point per role-filtered vote record, each     *)
(* record is counted once: as yes when its vote is exactly "Yes", as no    *)
(* when exactly "No", as abstain otherwise; so the counts of the k-th      *)
(* point add up to k.                                                      *)
C10_OnePointPerVote ==
    pc = "rendered" =>
        LET filtered == roleFilteredVotes(allVotes, curveRoleFilter)
            n == Len(filtered)
        IN /\ Len(voteTimelineData) = n
           /\ Len(votesWithDates) = n
           /\ {votesWithDates[k].fallbackIndex : k \in 1..n} = 0..(n - 1)
           /\ \A k \in 1..n :
                 LET v == filtered[votesWithDates[k].fallbackIndex + 1].vote
                     was == CountsAt(k - 1)
                     now == CountsAt(k)
                 IN /\ now.yes = was.yes + (IF v = "Yes" THEN 1 ELSE 0)
                    /\ now.no = was.no + (IF v = "No" THEN 1 ELSE 0)
                    /\ now.abstain
                         = was.abstain + (IF v \in {"Yes", "No"} THEN 0 ELSE 1)
                    /\ now.yes + now.no + now.abstain = k

(* a role filter dropped a record, and a vote that is neither "Yes", "No" *)
(* nor "Abstain" was counted as abstain                                   *)
C10_Witness ==
    /\ pc = "rendered"
    /\ curveRoleFilter = "CC"
    /\ Len(allVotes) = 3
    /\ Len(voteTimelineData) = 2
    /\ votesWithDates[1].vote = "yes"
    /\ voteTimelineData[1].abstainCount = 1
    /\ votesWithDates[2].vote = "Yes"
    /\ voteTimelineData[2].yesCount = 1

(* the categories of the switch at lines 301-314 *)
CategoryOf(vote) ==
    IF vote.vote = "Yes" THEN "yes"
    ELSE IF vote.vote = "No" THEN "no" ELSE "abstain"

(* the number of votes of a category, whatever their order *)
CategoryCount(votes, category) ==
    Cardinality({i \in 1..Len(votes) : CategoryOf(votes[i]) = category})

(* the sum of the voting powers of a category with every bit kept, absent *)
(* powers being 0                                                         *)
RECURSIVE CategorySum(_, _)
CategorySum(votes, category) ==
    IF votes = <<>> THEN 0
    ELSE CategorySum(Front(votes), category)
           + (IF CategoryOf(Last(votes)) = category
                 /\ Last(votes).votingPowerAda # Undefined
              THEN Val(Last(votes).votingPowerAda) ELSE 0)

(* the totals a list of timeline points ends with *)
LastTotals(points) ==
    [yesCount |-> Last(points).yesCount,
     noCount |-> Last(points).noCount,
     abstainCount |-> Last(points).abstainCount,
     yesPower |-> Last(points).yesPower,
     noPower |-> Last(points).noPower,
     abstainPower |-> Last(points).abstainPower]

(* the voting powers are whole numbers with a total of at most 2^53, so that *)
(* every partial sum is a double                                             *)
PowersAddExactly(votes) ==
    CategorySum(votes, "yes") + CategorySum(votes, "no")
        + CategorySum(votes, "abstain") <= Unit53

(* C11 as stated: the last timeline point is the same for every permutation *)
(* of the vote records, its powers being the sums of the voting powers and  *)
(* its counts the numbers of votes of each category.                        *)
C11_SameForEveryPermutation ==
    pc = "rendered" /\ voteTimelineData # <<>> =>
        \A p \in Arrangements(allVotes) :
            \A out \in TimelineOutcomes(p, curveRoleFilter) :
                LastTotals(out.points) = LastTotals(voteTimelineData)

(* C11, amended: the counts of the last timeline point are the numbers of  *)
(* role-filtered votes of each category, whatever the order and the time   *)
(* stamps of the votes; when the voting powers are whole numbers with a    *)
(* total of at most 2^53, its powers are the sums of the voting powers     *)
(* (absent taken as 0) over the Yes, No and other votes.                   *)
C11_LastPointTotals ==
    pc = "rendered" /\ voteTimelineData # <<>> =>
        LET filtered == roleFilteredVotes(allVotes, curveRoleFilter)
            last == LastTotals(voteTimelineData)
        IN /\ last.yesCount = CategoryCount(filtered, "yes")
           /\ last.noCount = CategoryCount(filtered, "no")
           /\ last.abstainCount = CategoryCount(filtered, "abstain")
           /\ PowersAddExactly(filtered) =>
                 /\ last.yesPower = CategorySum(filtered, "yes")
                 /\ last.noPower = CategorySum(filtered, "no")
                 /\ last.abstainPower = CategorySum(filtered, "abstain")

(* three votes with powers in each category, one without a power, sorted *)
(* into another order than they came in                                  *)
C11_Witness ==
    /\ pc = "rendered"
    /\ Len(voteTimelineData) = 3
    /\ PowersAddExactly(allVotes)
    /\ votesWithDates[1].fallbackIndex = 2
    /\ allVotes[1].votingPowerAda = Undefined
    /\ LastTotals(voteTimelineData) =
          [yesCount |-> 1, noCount |-> 1, abstainCount |-> 1,
           yesPower |-> 0, noPower |-> 1, abstainPower |-> 1]

----------------------------------------------------------------------------
(* Filter / sort / priority engine: api.ts, GovernanceTable *)

(* lines 320-328 *)
SHOWCASE_ORDER ==
    <<"NoConfidence", "UpdateCommittee", "NewConstitution",
      "HardForkInitiation", "ParameterChange", "Treasury", "InfoAction">>

(* @/types/governance: the ProposalType keys, those of TYPE_LABELS *)
PROPOSAL_TYPES ==
    <<"NoConfidence", "UpdateCommittee", "NewConstitution",
      "HardForkInitiation", "ParameterChange", "Treasury", "InfoAction">>

(* governanceSlice, lines 21-27 *)
STATUS_OPTIONS == <<"Active", "Ratified", "Expired", "Approved", "Not approved">>

Range(s) == {s[i] : i \in 1..Len(s)}

(* x ?? 0 *)
OrZero(o) == IF o = Undefined THEN 0 ELSE Val(o)

(* String.prototype.toLowerCase, one character *)
ToLowerCaseChar(c) ==
    CASE c = "A" -> "a"
      [] c = "B" -> "b"
      [] OTHER -> c

ToLowerCase(s) == [i \in 1..Len(s) |-> ToLowerCaseChar(s[i])]

(* String.prototype.trim *)
RECURSIVE Trim(_)
Trim(s) ==
    IF s = <<>> THEN s
    ELSE IF s[1] = " " THEN Trim(Tail(s))
    ELSE IF Last(s) = " " THEN Trim(Front(s))
    ELSE s

(* String.prototype.includes *)
Includes(s, q) ==
    \E i \in 0..(Len(s) - Len(q)) : SubSeq(s, i + 1, i + Len(q)) = q

(* a comparator with the tie broken by expiryEpoch ascending *)
compareActionsExpiryAscending(a, b) ==
    LET epochA == OrZero(a.submissionEpoch)
        epochB == OrZero(b.submissionEpoch)
    IN IF epochA = epochB
       THEN OrZero(a.expiryEpoch) - OrZero(b.expiryEpoch)
       ELSE epochB - epochA

(* lines 419-426, the comparator *)
compareActions(a, b) ==
    LET epochA == OrZero(a.submissionEpoch)
        epochB == OrZero(b.submissionEpoch)
    IN IF epochA = epochB
       THEN OrZero(b.expiryEpoch) - OrZero(a.expiryEpoch)
       ELSE epochB - epochA

(* line 419: [...actions].sort(...), a stable sort; by insertion *)
RECURSIVE InsertAction(_, _)
InsertAction(s, x) ==
    IF s = <<>> THEN <<x>>
    ELSE IF compareActions(Last(s), x) > 0
         THEN Append(InsertAction(Front(s), x), Last(s))
         ELSE Append(s, x)

RECURSIVE SortActions(_)
SortActions(s) ==
    IF s = <<>> THEN <<>>
    ELSE InsertAction(SortActions(Front(s)), Last(s))

(* a search that lower-cases the query but not the title *)
applySearchTitleAsIs(list, query) ==
    IF Trim(query) = <<>> THEN list
    ELSE LET q == ToLowerCase(query)
             keep(action) == Includes(action.title, q)
         IN SelectSeq(list, keep)

(* lines 434-438 *)
applySearch(list, query) ==
    IF Trim(query) = <<>> THEN list
    ELSE LET q == ToLowerCase(query)
             keep(action) == Includes(ToLowerCase(action.title), q)
         IN SelectSeq(list, keep)

(* no status filter at all *)
statusFilteredKeepAll(sorted, statuses) == sorted

(* lines 441-443 *)
statusFiltered(sorted, statuses) ==
    LET statusSet == Range(statuses)
        keep(action) == action.status \in statusSet
    IN SelectSeq(sorted, keep)

(* Array.prototype.find taking the last match *)
FindLastOfType(list, type) ==
    LET keep(action) == action.type = type
        hits == SelectSeq(list, keep)
    IN IF hits = <<>> THEN Undefined ELSE Some(Last(hits))

(* line 447: statusFiltered.find((action) => action.type === type) *)
FindOfType(list, type) ==
    LET keep(action) == action.type = type
        hits == SelectSeq(list, keep)
    IN IF hits = <<>> THEN Undefined ELSE Some(Head(hits))

(* lines 445-451: prioritized, then dedupedPrioritized *)
dedupedPrioritized(list, types) ==
    LET selectionSet == Range(types)
        inSelection(type) == type \in selectionSet
        order == SelectSeq(SHOWCASE_ORDER, inSelection)
        prioritized == [i \in 1..Len(order) |-> FindOfType(list, order[i])]
        found(o) == o # Undefined
        kept == SelectSeq(prioritized, found)
    IN [i \in 1..Len(kept) |-> Val(kept[i])]

(* the extras left out when all types are selected *)
extrasNone(list) == <<>>

(* lines 455-457 *)
extras(list) ==
    LET keep(action) == action.type \notin Range(SHOWCASE_ORDER)
    IN SelectSeq(list, keep)

(* a fallback that filters nothing *)
baseFilteredKeepAll(list, types) == list

(* a fallback that keeps every type outside the showcase list *)
baseFilteredKeepOthers(list, types) ==
    LET selectionSet == Range(types)
        keep(action) ==
            IF action.type \notin Range(SHOWCASE_ORDER) THEN TRUE
            ELSE action.type \in selectionSet
    IN SelectSeq(list, keep)

(* lines 463-469 *)
baseFiltered(list, types) ==
    LET selectionSet == Range(types)
        keep(action) ==
            IF action.type \notin Range(SHOWCASE_ORDER)
            THEN Cardinality(selectionSet) = Len(PROPOSAL_TYPES)
            ELSE action.type \in selectionSet
    IN SelectSeq(list, keep)

(* lines 440-471 without the calls of applySearch: the list handed to it *)
CandidateList(sorted, types, statuses) ==
    LET selectionSet == Range(types)
        filtered == statusFiltered(sorted, statuses)
        deduped == dedupedPrioritized(filtered, types)
    IN IF Len(deduped) # 0
       THEN IF Cardinality(selectionSet) = Len(PROPOSAL_TYPES)
            THEN deduped \o extras(filtered)
            ELSE deduped
       ELSE baseFiltered(filtered, types)

(* the search applied to the sorted list, before the curation by type *)
FilteredActionsSearchFirst(sorted, types, statuses, query) ==
    IF Len(sorted) = 0 THEN <<>>
    ELSE CandidateList(applySearch(sorted, query), types, statuses)

(* lines 429-472: filteredActions *)
FilteredActions(sorted, types, statuses, query) ==
    IF Len(sorted) = 0 THEN <<>>
    ELSE applySearch(CandidateList(sorted, types, statuses), query)

----------------------------------------------------------------------------
(* The governance table as a state machine *)

(* the title of the action at input position i *)
TitleAt(i) ==
    CASE i % 3 = 1 -> <<"x", "A", "b">>
      [] i % 3 = 2 -> <<"b", "a">>
      [] OTHER -> <<"a", "b", " ">>

(* the action at input position i: its hash is its position *)
ActionAt(shape, i) ==
    [hash |-> i,
     title |-> TitleAt(i),
     type |-> shape.type,
     status |-> shape.status,
     submissionEpoch |-> shape.submissionEpoch,
     expiryEpoch |-> shape.expiryEpoch]

(* actions that differ in type, status and submission epoch *)
TableShapes ==
    [type : {"NoConfidence", "Treasury", "Other"},
     status : {"Active", "Expired"},
     submissionEpoch : {Some(1), Some(2)},
     expiryEpoch : {Some(3)}]

(* actions that differ in their epochs, absent ones included *)
EpochShapes ==
    [type : {"Treasury"},
     status : {"Active"},
     submissionEpoch : {Undefined} \cup {Some(e) : e \in 0..MaxEpoch},
     expiryEpoch : {Undefined} \cup {Some(e) : e \in 0..MaxEpoch}]

TypeSelections ==
    {PROPOSAL_TYPES, <<"Treasury", "NoConfidence">>, <<"InfoAction">>, <<>>}

StatusSelections == {STATUS_OPTIONS, <<"Active">>, <<>>}

Queries == {<<" ">>, <<"a", "B">>}

InitTable(shapes, types, statuses) ==
    /\ pc = "mount"
    /\ \E k \in 0..MaxActions :
          \E sh \in [1..k -> shapes] :
              actions = [i \in 1..k |-> ActionAt(sh[i], i)]
    /\ selectedTypes \in types
    /\ selectedStatuses \in statuses
    /\ searchQuery = <<>>
    /\ sortedActions = <<>>
    /\ candidateList = <<>>
    /\ filteredActions = <<>>
    /\ TimelineIdle
    /\ NormalizerIdle
    /\ RolesIdle
    /\ RowIdle
    /\ SliceIdle

(* the memos of GovernanceTable for the query given *)
TableMemos(query) ==
    LET sorted == SortActions(actions) IN
    /\ sortedActions' = sorted
    /\ candidateList' =
          IF Len(sorted) = 0 THEN <<>>
          ELSE CandidateList(sorted, selectedTypes, selectedStatuses)
    /\ filteredActions' =
          FilteredActions(sorted, selectedTypes, selectedStatuses, query)

(* the first render of GovernanceTable *)
RenderTable ==
    /\ pc = "mount"
    /\ TableMemos(searchQuery)
    /\ pc' = "rendered"
    /\ UNCHANGED <<actions, selectedTypes, selectedStatuses, searchQuery,
                   timelineVars, normalizerVars, rolesVars, rowVars, sliceVars>>

(* setSearchQuery(query) of the search input, and the render it causes *)
SetSearchQuery(query) ==
    /\ pc = "rendered"
    /\ query # searchQuery
    /\ searchQuery' = query
    /\ TableMemos(query)
    /\ UNCHANGED <<pc, actions, selectedTypes, selectedStatuses,
                   timelineVars, normalizerVars, rolesVars, rowVars, sliceVars>>

NextTable ==
    \/ RenderTable
    \/ \E query \in Queries \cup {<<>>} : SetSearchQuery(query)

InitTableFilter ==
    InitTable(TableShapes, TypeSelections, StatusSelections)
SpecTable == InitTableFilter /\ [][NextTable]_vars

InitTableSort ==
    InitTable(EpochShapes, {PROPOSAL_TYPES}, {STATUS_OPTIONS})
SpecTableSort == InitTableSort /\ [][NextTable]_vars

----------------------------------------------------------------------------
(* Claims about the table *)

ShowcaseTypes == Range(SHOWCASE_ORDER)

(* the place of a showcase type in the fixed order *)
ShowcaseIndex(type) == CHOOSE i \in 1..Len(SHOWCASE_ORDER) : SHOWCASE_ORDER[i] = type

AllTypesSelected == Range(selectedTypes) = Range(PROPOSAL_TYPES)

StatusMatches(a) == a.status \in Range(selectedStatuses)

(* the status-matching input actions of a type *)
MatchingOfType(type) ==
    {a \in Range(actions) : a.type = type /\ StatusMatches(a)}

(* the selected showcase types that have a status-matching action *)
RepresentedTypes ==
    {t \in ShowcaseTypes \cap Range(selectedTypes) : MatchingOfType(t) # {}}

(* a comes before b in the order of sortedActions *)
SortedBefore(a, b) ==
    \E i, j \in 1..Len(sortedActions) :
        i < j /\ sortedActions[i] = a /\ sortedActions[j] = b

(* a is the first of the status-matching actions of its type in sortedActions *)
IsRepresentative(a) ==
    /\ a \in MatchingOfType(a.type)
    /\ \A b \in MatchingOfType(a.type) : b # a => SortedBefore(a, b)

NoDuplicates(list) ==
    \A i, j \in 1..Len(list) : list[i].hash = list[j].hash => i = j

(* the status-matching actions of sortedActions outside the showcase types *)
SortedExtras ==
    LET keep(a) == StatusMatches(a) /\ a.type \notin ShowcaseTypes
    IN SelectSeq(sortedActions, keep)

(* C3: with every proposal type selected and some showcase type having a   *)
(* status-matching action, the list before search is one representative    *)
(* per showcase type that has a status-matching action, in showcase order, *)
(* followed by the status-matching actions of the other types in           *)
(* epoch-sorted order, and no action is in it twice.                       *)
C3_AllSelectedList ==
    (pc = "rendered" /\ AllTypesSelected /\ RepresentedTypes # {}) =>
        LET n == Cardinality(RepresentedTypes) IN
        /\ Len(candidateList) = n + Len(SortedExtras)
        /\ {candidateList[k].type : k \in 1..n} = RepresentedTypes
        /\ \A k \in 1..n : IsRepresentative(candidateList[k])
        /\ \A k, l \in 1..n :
              k < l => ShowcaseIndex(candidateList[k].type)
                          < ShowcaseIndex(candidateList[l].type)
        /\ SubSeq(candidateList, n + 1, Len(candidateList)) = SortedExtras
        /\ NoDuplicates(candidateList)

(* two representatives in showcase order against the epoch order, a        *)
(* second action of a represented type dropped, and an extra at the end    *)
C3_Witness ==
    /\ pc = "rendered"
    /\ AllTypesSelected
    /\ Len(actions) = 3
    /\ Len(candidateList) = 2
    /\ candidateList[1].type = "Treasury"
    /\ candidateList[1].hash = 3
    /\ candidateList[2].type = "Other"
    /\ actions[1].type = "Treasury" /\ StatusMatches(actions[1])

(* a has the higher submissionEpoch, or the same and the higher expiryEpoch, *)
(* or the same of both and the earlier input position                        *)
RanksBefore(a, b) ==
    \/ OrZero(a.submissionEpoch) > OrZero(b.submissionEpoch)
    \/ /\ OrZero(a.submissionEpoch) = OrZero(b.submissionEpoch)
       /\ OrZero(a.expiryEpoch) > OrZero(b.expiryEpoch)
    \/ /\ OrZero(a.submissionEpoch) = OrZero(b.submissionEpoch)
       /\ OrZero(a.expiryEpoch) = OrZero(b.expiryEpoch)
       /\ a.hash < b.hash

ProperSubsetSelected ==
    /\ Range(selectedTypes) # {}
    /\ Range(selectedTypes) # Range(PROPOSAL_TYPES)
    /\ Range(selectedTypes) \subseteq Range(PROPOSAL_TYPES)

(* C4: with a non-empty proper subset of the types selected and some       *)
(* selected type having a status-matching action, the list before search   *)
(* holds at most one action per selected type, in showcase order, each the *)
(* first of its type in the epoch-sorted status-filtered list (highest     *)
(* submissionEpoch, then highest expiryEpoch, then earliest input          *)
(* position), and no action of an unselected type.                         *)
C4_SubsetSelectedList ==
    (pc = "rendered" /\ ProperSubsetSelected /\ RepresentedTypes # {}) =>
        /\ \A k \in 1..Len(candidateList) :
              LET c == candidateList[k] IN
              /\ c.type \in Range(selectedTypes)
              /\ IsRepresentative(c)
              /\ \A b \in MatchingOfType(c.type) : b # c => RanksBefore(c, b)
        /\ \A k, l \in 1..Len(candidateList) :
              k < l => ShowcaseIndex(candidateList[k].type)
                          < ShowcaseIndex(candidateList[l].type)

(* two selected types are represented, in showcase order against the epoch *)
(* order and the order of the selection, and a second Treasury action is   *)
(* left out                                                                *)
C4_Witness ==
    /\ pc = "rendered"
    /\ selectedTypes = <<"Treasury", "NoConfidence">>
    /\ Len(actions) = 3
    /\ Len(candidateList) = 2
    /\ candidateList[1].type = "NoConfidence"
    /\ candidateList[2].type = "Treasury"
    /\ candidateList[2].hash = 3
    /\ OrZero(candidateList[1].submissionEpoch)
          < OrZero(candidateList[2].submissionEpoch)
    /\ actions[1].type = "Treasury" /\ StatusMatches(actions[1])

(* C5: when no selected showcase type has a status-matching action, the    *)
(* list before search is the epoch-sorted, status-filtered list restricted *)
(* by type membership: a showcase-type action is kept iff its type is      *)
(* selected, an action of another type iff all types are selected.         *)
C5_FallbackList ==
    (pc = "rendered" /\ RepresentedTypes = {}) =>
        LET keep(a) ==
                /\ StatusMatches(a)
                /\ IF a.type \in ShowcaseTypes
                   THEN a.type \in Range(selectedTypes)
                   ELSE AllTypesSelected
        IN candidateList = SelectSeq(sortedActions, keep)

(* the fallback with all types selected keeps two actions of another type, *)
(* in epoch order against the input order                                  *)
C5_Witness ==
    /\ pc = "rendered"
    /\ RepresentedTypes = {}
    /\ AllTypesSelected
    /\ Len(actions) = 3
    /\ Len(candidateList) = 2
    /\ candidateList[1].hash = 3
    /\ candidateList[2].hash = 1
    /\ actions[2].type = "Treasury"

(* c and d are the same letter, in whatever case *)
SameLetter(c, d) ==
    \/ c = d
    \/ {c, d} = {"a", "A"}
    \/ {c, d} = {"b", "B"}

(* title contains query as a case-insensitive substring *)
ContainsIgnoringCase(title, query) ==
    \E off \in 0..(Len(title) - Len(query)) :
        \A j \in 1..Len(query) : SameLetter(title[off + j], query[j])

IsBlank(query) == \A i \in 1..Len(query) : query[i] = " "

(* C6: for a non-blank query every action of the output has a title that   *)
(* contains the query as a case-insensitive substring, the search being    *)
(* the last step of both branches (the output is the list before search    *)
(* with the other titles removed); a blank query removes nothing.          *)
C6_SearchLast ==
    pc = "rendered" =>
        IF IsBlank(searchQuery)
        THEN filteredActions = candidateList
        ELSE LET keep(a) == ContainsIgnoringCase(a.title, searchQuery)
             IN filteredActions = SelectSeq(candidateList, keep)

(* an upper-case letter of the query matched a lower-case one of a title *)
(* and the search removed a representative                               *)
C6_Witness ==
    /\ pc = "rendered"
    /\ searchQuery = <<"a", "B">>
    /\ RepresentedTypes # {}
    /\ Len(candidateList) = 3
    /\ Len(filteredActions) = 2
    /\ filteredActions[2].title = <<"a", "b", " ">>

(* C7: sortedActions is a permutation of the input actions, ordered by     *)
(* submissionEpoch descending, ties by expiryEpoch descending (an absent   *)
(* epoch counting as 0), actions equal on both keys keeping their input    *)
(* order.                                                                  *)
C7_SortedActions ==
    pc = "rendered" =>
        /\ Len(sortedActions) = Len(actions)
        /\ Range(sortedActions) = Range(actions)
        /\ \A i, j \in 1..Len(sortedActions) :
              i < j => RanksBefore(sortedActions[i], sortedActions[j])

(* the sort moved the last action to the front on the expiryEpoch tie-break *)
(* and left two actions with equal keys, one with absent epochs, in input   *)
(* order                                                                    *)
C7_Witness ==
    /\ pc = "rendered"
    /\ Len(actions) = 3
    /\ sortedActions[1].hash = 3
    /\ sortedActions[2].hash = 1
    /\ sortedActions[3].hash = 2
    /\ actions[1].submissionEpoch = Undefined
    /\ actions[2].submissionEpoch = Some(0)
    /\ actions[3].submissionEpoch = Some(0)
    /\ actions[1].expiryEpoch = Some(0)
    /\ actions[2].expiryEpoch = Undefined
    /\ actions[3].expiryEpoch = Some(1)

(* C8: every action of the table output has a status of the selected status *)
(* set; with no status selected the output is empty.                        *)
C8_StatusSelected ==
    pc = "rendered" =>
        /\ \A k \in 1..Len(filteredActions) : StatusMatches(filteredActions[k])
        /\ selectedStatuses = <<>> => filteredActions = <<>>

(* with "Active" alone selected the output dropped an Expired action *)
C8_Witness ==
    /\ pc = "rendered"
    /\ selectedStatuses = <<"Active">>
    /\ Len(filteredActions) = 2
    /\ \E i \in 1..Len(actions) : actions[i].status = "Expired"

----------------------------------------------------------------------------
(* Action record normalizer: api.ts, transformGovernanceAction *)

LOVELACE_PER_ADA == 1000000

(* lovelace strings: "", a text that is no number, digits beyond the range *)
(* of a double, the digits of n                                            *)
EmptyString == [kind |-> "empty", n |-> 0]
TextString == [kind |-> "text", n |-> 0]
HugeString == [kind |-> "huge", n |-> 0]
DigitString(n) == [kind |-> "digits", n |-> n]

(* a JavaScript number: finite with value v, NaN or Infinity *)
Finite(v) == [kind |-> "finite", v |-> v]
NaN == [kind |-> "nan", v |-> 0]
Infinity == [kind |-> "inf", v |-> 0]

(* Number(s) *)
NumberOf(s) ==
    CASE s.kind = "digits" -> Finite(s.n)
      [] s.kind = "empty" -> Finite(0)
      [] s.kind = "huge" -> Infinity
      [] OTHER -> NaN

(* x / d for a finite d > 0; the model's amounts are multiples of d *)
DividedBy(x, d) == IF x.kind = "finite" THEN Finite(x.v \div d) ELSE x

(* the conversion without the division *)
lovelaceToAdaNumberUnscaled(lovelace) ==
    IF lovelace = Undefined \/ Val(lovelace).kind = "empty" THEN 0
    ELSE LET adaValue == NumberOf(Val(lovelace))
         IN IF adaValue.kind = "finite" THEN adaValue.v ELSE 0

(* the amount returned as it is, unless it is NaN: Infinity gets through, *)
(* written here as the amount -1 that no lovelace string has              *)
lovelaceToAdaNumberNaNOnly(lovelace) ==
    IF lovelace = Undefined \/ Val(lovelace).kind = "empty" THEN 0
    ELSE LET adaValue == DividedBy(NumberOf(Val(lovelace)), LOVELACE_PER_ADA)
         IN IF adaValue.kind = "finite" THEN adaValue.v
            ELSE IF adaValue.kind = "nan" THEN 0 ELSE -1

(* lines 152-156 *)
lovelaceToAdaNumber(lovelace) ==
    IF lovelace = Undefined \/ Val(lovelace).kind = "empty" THEN 0
    ELSE LET adaValue == DividedBy(NumberOf(Val(lovelace)), LOVELACE_PER_ADA)
         IN IF adaValue.kind = "finite" THEN adaValue.v ELSE 0

(* the default left out *)
NullishZeroLeftOut(o) == o

(* x ?? 0, as a value that may be undefined *)
NullishZero(o) == IF o = Undefined THEN Some(0) ELSE o

(* action.drep?.field *)
Field(tally, name) == IF tally = Undefined THEN Undefined ELSE Val(tally)[name]

(* the text "Untitled Proposal" *)
UntitledProposal ==
    <<"U", "n", "t", "i", "t", "l", "e", "d", " ",
      "P", "r", "o", "p", "o", "s", "a", "l">>

(* the text "Unspecified" *)
Unspecified == <<"U", "n", "s", "p", "e", "c", "i", "f", "i", "e", "d">>

(* text ?? fallback: the empty text is kept *)
OrTextNullish(text, fallback) ==
    IF text = Undefined THEN Some(fallback) ELSE text

(* text || fallback *)
OrText(text, fallback) ==
    IF text = Undefined \/ Val(text) = <<>> THEN Some(fallback) ELSE text

(* {yesAda, noAda, abstainAda, ...tally}: the raw fields written last *)
WithAdaSpreadLast(tally, yesAda, noAda, abstainAda) == tally

(* the amounts converted in place: the lovelace fields get the ADA amounts *)
WithAdaInPlace(tally, yesAda, noAda, abstainAda) ==
    IF tally = Undefined THEN Undefined
    ELSE Some([Val(tally) EXCEPT !.yesAda = yesAda,
                                 !.noAda = noAda,
                                 !.abstainAda = abstainAda,
                                 !.yesLovelace = Some(DigitString(Val(yesAda))),
                                 !.noLovelace = Some(DigitString(Val(noAda))),
                                 !.abstainLovelace =
                                     Some(DigitString(Val(abstainAda)))])

(* lines 229-244: {...tally, yesAda, noAda, abstainAda} *)
WithAda(tally, yesAda, noAda, abstainAda) ==
    IF tally = Undefined THEN Undefined
    ELSE Some([Val(tally) EXCEPT !.yesAda = yesAda,
                                 !.noAda = noAda,
                                 !.abstainAda = abstainAda])

(* lines 163-247 *)
transformGovernanceAction(action) ==
    LET drepYesAda == Some(lovelaceToAdaNumber(Field(action.drep, "yesLovelace")))
        drepNoAda == Some(lovelaceToAdaNumber(Field(action.drep, "noLovelace")))
        drepAbstainAda ==
            Some(lovelaceToAdaNumber(Field(action.drep, "abstainLovelace")))
        spoYesAda ==
            IF action.spo # Undefined
            THEN Some(lovelaceToAdaNumber(Val(action.spo).yesLovelace))
            ELSE Undefined
        spoNoAda ==
            IF action.spo # Undefined
            THEN Some(lovelaceToAdaNumber(Val(action.spo).noLovelace))
            ELSE Undefined
        spoAbstainAda ==
            IF action.spo # Undefined
            THEN Some(lovelaceToAdaNumber(Val(action.spo).abstainLovelace))
            ELSE Undefined
    IN [hash |-> action.hash,
        proposalId |-> action.proposalId,
        txHash |-> action.txHash,
        title |-> OrText(action.title, UntitledProposal),
        type |-> action.type,
        status |-> action.status,
        constitutionality |-> OrText(action.constitutionality, Unspecified),
        drepYesPercent |-> NullishZero(Field(action.drep, "yesPercent")),
        drepNoPercent |-> NullishZero(Field(action.drep, "noPercent")),
        drepAbstainPercent |-> NullishZero(Field(action.drep, "abstainPercent")),
        drepYesAda |-> drepYesAda,
        drepNoAda |-> drepNoAda,
        drepAbstainAda |-> drepAbstainAda,
        spoYesPercent |-> Field(action.spo, "yesPercent"),
        spoNoPercent |-> Field(action.spo, "noPercent"),
        spoAbstainPercent |-> Field(action.spo, "abstainPercent"),
        spoYesAda |-> spoYesAda,
        spoNoAda |-> spoNoAda,
        spoAbstainAda |-> spoAbstainAda,
        ccYesPercent |-> Field(action.cc, "yesPercent"),
        ccNoPercent |-> Field(action.cc, "noPercent"),
        ccAbstainPercent |-> Field(action.cc, "abstainPercent"),
        ccYesCount |-> Field(action.cc, "yesCount"),
        ccNoCount |-> Field(action.cc, "noCount"),
        ccAbstainCount |-> Field(action.cc, "abstainCount"),
        totalYes |-> NullishZero(action.totalYes),
        totalNo |-> NullishZero(action.totalNo),
        totalAbstain |-> NullishZero(action.totalAbstain),
        submissionEpoch |-> NullishZero(action.submissionEpoch),
        expiryEpoch |-> NullishZero(action.expiryEpoch),
        threshold |-> action.threshold,
        votingStatus |-> action.votingStatus,
        drep |-> WithAda(action.drep, drepYesAda, drepNoAda, drepAbstainAda),
        spo |-> WithAda(action.spo, spoYesAda, spoNoAda, spoAbstainAda),
        cc |-> action.cc]

(* a ?? b on values that may be undefined *)
NullishOr(a, b) == IF a = Undefined THEN b ELSE a

(* a ?? b in place of a || b: the empty text is kept *)
FalsyOrNullish(a, b) == IF a = Undefined THEN b ELSE a

(* a || b on texts that may be undefined: undefined and "" are falsy *)
FalsyOr(a, b) == IF a = Undefined \/ Val(a) = <<>> THEN b ELSE a

(* lines 269-283 *)
transformVoteRecord(vote) ==
    [voterType |-> vote.voterType,
     voterId |-> vote.voterId,
     voterName |-> vote.voterName,
     drepId |-> FalsyOr(vote.voterId, vote.drepId),
     drepName |-> FalsyOr(vote.voterName, FalsyOr(vote.voterId, vote.drepName)),
     vote |-> vote.vote,
     votingPower |-> NullishOr(vote.votingPower, Some(DigitString(0))),
     votingPowerAda |-> NullishZero(vote.votingPowerAda),
     anchorUrl |-> vote.anchorUrl,
     anchorHash |-> vote.anchorHash,
     votedAt |-> vote.votedAt]

(* votes?.map(transformVoteRecord): an absent array stays absent *)
MapVoteRecordsAbsentKept(votes) ==
    IF votes = Undefined THEN Undefined
    ELSE Some([i \in 1..Len(Val(votes)) |-> transformVoteRecord(Val(votes)[i])])

(* lines 261-262: votes?.map(transformVoteRecord) ?? [] *)
MapVoteRecords(votes) ==
    IF votes = Undefined THEN Some(<<>>)
    ELSE Some([i \in 1..Len(Val(votes)) |-> transformVoteRecord(Val(votes)[i])])

(* lines 252-264 *)
transformGovernanceActionDetail(detail) ==
    LET base == transformGovernanceAction(detail) IN
    [f \in DOMAIN base \cup {"description", "rationale", "votes", "ccVotes"} |->
        CASE f = "description" -> detail.description
          [] f = "rationale" -> detail.rationale
          [] f = "votes" -> MapVoteRecords(detail.votes)
          [] f = "ccVotes" -> MapVoteRecords(detail.ccVotes)
          [] OTHER -> base[f]]

----------------------------------------------------------------------------
(* The normalizer as a state machine: a raw record arrives and is transformed *)

LovelaceStrings ==
    {Undefined, Some(EmptyString), Some(TextString), Some(HugeString),
     Some(DigitString(2 * LOVELACE_PER_ADA))}

RawDrepTallies ==
    {Undefined} \cup
    {Some(t) : t \in
        [yesPercent : {Undefined, Some(60)},
         noPercent : {Undefined},
         abstainPercent : {Some(10)},
         yesLovelace : LovelaceStrings,
         noLovelace : {Undefined, Some(DigitString(LOVELACE_PER_ADA))},
         abstainLovelace : {Undefined},
         yesAda : {Undefined}, noAda : {Undefined}, abstainAda : {Undefined}]}

RawSpoTallies ==
    {Undefined} \cup
    {Some(t) : t \in
        [yesPercent : {Undefined, Some(40)},
         noPercent : {Some(0)},
         abstainPercent : {Undefined},
         yesLovelace : {Undefined, Some(DigitString(3 * LOVELACE_PER_ADA))},
         noLovelace : {Some(TextString)},
         abstainLovelace : {Undefined, Some(DigitString(0))},
         yesAda : {Undefined, Some(7)}, noAda : {Undefined},
         abstainAda : {Undefined}]}

RawCcTallies ==
    {Undefined} \cup
    {Some(t) : t \in
        [yesPercent : {Some(50)},
         noPercent : {Undefined},
         abstainPercent : {Undefined, Some(0)},
         yesCount : {Undefined, Some(3)},
         noCount : {Some(0)},
         abstainCount : {Undefined}]}

RawActions ==
    [hash : {<<"t", "x", ":", "0">>},
     proposalId : {<<"g", "o", "v">>},
     txHash : {<<"t", "x">>},
     title : {Undefined, Some(<<>>), Some(<<"A", "b">>)},
     type : {"Treasury"},
     status : {"Active"},
     constitutionality : {Undefined, Some(<<>>), Some(<<"b">>)},
     drep : RawDrepTallies,
     spo : RawSpoTallies,
     cc : RawCcTallies,
     totalYes : {Undefined, Some(4)},
     totalNo : {Some(0)},
     totalAbstain : {Undefined},
     submissionEpoch : {Undefined, Some(1)},
     expiryEpoch : {Undefined, Some(2)},
     threshold : {Undefined},
     votingStatus : {Undefined}]

InitNormalizer ==
    /\ pc = "fetched"
    /\ rawAction \in RawActions
    /\ transformed = Undefined
    /\ retransformed = Undefined
    /\ TimelineIdle
    /\ TableIdle
    /\ RolesIdle
    /\ RowIdle
    /\ SliceIdle

(* fetchGovernanceActions, line 116: data.map(transformGovernanceAction) *)
TransformRaw ==
    /\ pc = "fetched"
    /\ transformed' = Some(transformGovernanceAction(rawAction))
    /\ pc' = "transformed"
    /\ UNCHANGED <<rawAction, retransformed, timelineVars, tableVars, rolesVars, rowVars, sliceVars>>

NextNormalizer == TransformRaw

SpecNormalizer == InitNormalizer /\ [][NextNormalizer]_vars

(* the longest votes array of a raw detail record *)
MaxRecords == 2

(* raw vote records: voterId and voterName absent, empty or given; the     *)
(* deprecated aliases and the voting power absent or given                 *)
RawVoteRecords ==
    {[voterType |-> "DRep",
      voterId |-> id,
      voterName |-> name,
      drepId |-> old.id,
      drepName |-> old.name,
      vote |-> "Yes",
      votingPower |-> old.power,
      votingPowerAda |-> old.ada,
      anchorUrl |-> Undefined,
      anchorHash |-> Undefined,
      votedAt |-> Undefined] :
        id \in {Undefined, Some(<<>>), Some(<<"d", "1">>)},
        name \in {Undefined, Some(<<>>), Some(<<"N">>)},
        old \in {[id |-> Undefined, name |-> Undefined,
                  power |-> Undefined, ada |-> Undefined],
                 [id |-> Some(<<"o">>), name |-> Some(<<"O">>),
                  power |-> Some(DigitString(5 * LOVELACE_PER_ADA)),
                  ada |-> Some(5)]}}

(* raw detail records without a votes array *)
RawDetails ==
    [hash : {<<"t", "x", ":", "0">>},
     proposalId : {<<"g", "o", "v">>},
     txHash : {<<"t", "x">>},
     title : {Undefined},
     type : {"Treasury"},
     status : {"Active"},
     constitutionality : {Some(<<>>)},
     drep : {Undefined} \cup
            {Some(t) : t \in
                [yesPercent : {Some(60)},
                 noPercent : {Undefined},
                 abstainPercent : {Some(10)},
                 yesLovelace : {Some(DigitString(2 * LOVELACE_PER_ADA)),
                                Some(TextString)},
                 noLovelace : {Undefined},
                 abstainLovelace : {Some(DigitString(0))},
                 yesAda : {Undefined}, noAda : {Undefined},
                 abstainAda : {Undefined}]},
     spo : {Undefined} \cup
           {Some(t) : t \in
                [yesPercent : {Undefined},
                 noPercent : {Some(0)},
                 abstainPercent : {Undefined},
                 yesLovelace : {Some(DigitString(3 * LOVELACE_PER_ADA))},
                 noLovelace : {Some(EmptyString)},
                 abstainLovelace : {Undefined},
                 yesAda : {Some(7)}, noAda : {Undefined},
                 abstainAda : {Undefined}]},
     cc : {Undefined},
     totalYes : {Undefined},
     totalNo : {Some(0)},
     totalAbstain : {Undefined},
     submissionEpoch : {Some(1)},
     expiryEpoch : {Undefined},
     threshold : {Undefined},
     votingStatus : {Undefined},
     description : {Some(<<"d">>)},
     rationale : {Undefined},
     votes : {Undefined},
     ccVotes : {Undefined} \cup
               {Some(<<r>>) : r \in {v \in RawVoteRecords :
                                       v.voterId = Some(<<>>)
                                         /\ v.voterName = Undefined}}]

InitDetail ==
    /\ pc = "fetched"
    /\ \E detail \in RawDetails :
          \/ rawAction = detail
          \/ \E k \in 0..MaxRecords :
                \E votes \in [1..k -> RawVoteRecords] :
                    rawAction = [detail EXCEPT !.votes = Some(votes)]
    /\ transformed = Undefined
    /\ retransformed = Undefined
    /\ TimelineIdle
    /\ TableIdle
    /\ RolesIdle
    /\ RowIdle
    /\ SliceIdle

(* fetchGovernanceActionDetail, line 141: transformGovernanceActionDetail(data) *)
TransformRawDetail ==
    /\ pc = "fetched"
    /\ transformed' = Some(transformGovernanceActionDetail(rawAction))
    /\ pc' = "transformedDetail"
    /\ UNCHANGED <<rawAction, retransformed, timelineVars, tableVars, rolesVars, rowVars, sliceVars>>

(* transformGovernanceAction applied to the record it returned *)
TransformAgain ==
    /\ pc = "transformed"
    /\ retransformed' = Some(transformGovernanceAction(Val(transformed)))
    /\ pc' = "retransformed"
    /\ UNCHANGED <<rawAction, transformed, timelineVars, tableVars, rolesVars, rowVars, sliceVars>>

(* transformGovernanceActionDetail applied to the record it returned *)
TransformDetailAgain ==
    /\ pc = "transformedDetail"
    /\ retransformed' = Some(transformGovernanceActionDetail(Val(transformed)))
    /\ pc' = "retransformedDetail"
    /\ UNCHANGED <<rawAction, transformed, timelineVars, tableVars, rolesVars, rowVars, sliceVars>>

NextDetail ==
    \/ TransformRaw
    \/ TransformRawDetail
    \/ TransformAgain
    \/ TransformDetailAgain

SpecDetail == InitDetail /\ [][NextDetail]_vars

----------------------------------------------------------------------------
(* Claims about the normalizer *)

DrepFlatFields ==
    {"drepYesPercent", "drepNoPercent", "drepAbstainPercent",
     "drepYesAda", "drepNoAda", "drepAbstainAda"}

SpoAdaFields == {"spoYesAda", "spoNoAda", "spoAbstainAda"}

TotalAndEpochFields ==
    {"totalYes", "totalNo", "totalAbstain", "submissionEpoch", "expiryEpoch"}

(* the flat fields that pass a raw tally field through, with that field *)
PassedThrough ==
    {<<"spoYesPercent", "spo", "yesPercent">>,
     <<"spoNoPercent", "spo", "noPercent">>,
     <<"spoAbstainPercent", "spo", "abstainPercent">>,
     <<"ccYesPercent", "cc", "yesPercent">>,
     <<"ccNoPercent", "cc", "noPercent">>,
     <<"ccAbstainPercent", "cc", "abstainPercent">>,
     <<"ccYesCount", "cc", "yesCount">>,
     <<"ccNoCount", "cc", "noCount">>,
     <<"ccAbstainCount", "cc", "abstainCount">>}

FlatNumericFields ==
    DrepFlatFields \cup SpoAdaFields \cup TotalAndEpochFields
        \cup {p[1] : p \in PassedThrough}

(* the raw value behind a DRep percentage, total or epoch field *)
RawOf(raw, f) ==
    CASE f = "drepYesPercent" -> Field(raw.drep, "yesPercent")
      [] f = "drepNoPercent" -> Field(raw.drep, "noPercent")
      [] f = "drepAbstainPercent" -> Field(raw.drep, "abstainPercent")
      [] f = "drepYesAda" -> Field(raw.drep, "yesLovelace")
      [] f = "drepNoAda" -> Field(raw.drep, "noLovelace")
      [] f = "drepAbstainAda" -> Field(raw.drep, "abstainLovelace")
      [] OTHER -> raw[f]

(* C2 as stated: every flat percentage, count, ADA and epoch field of the *)
(* record the normalizer returns is present and a number, also when the   *)
(* drep, spo or cc tally object of the raw record is absent.              *)
C2_AllFlatFieldsNumeric ==
    pc = "transformed" =>
        \A f \in FlatNumericFields : Val(transformed)[f] # Undefined

(* C2 amended: the DRep percentage and ADA fields, the totals and the     *)
(* epochs are present and numbers, 0 when the raw value is absent; the    *)
(* flat SPO ADA fields are numbers when the raw record has an spo object  *)
(* and absent when it has none; the flat SPO percentages and CC           *)
(* percentages and counts are the raw values, absent when the raw value   *)
(* or its tally object is absent.                                         *)
C2_FlatFields ==
    pc = "transformed" =>
        LET out == Val(transformed) IN
        /\ \A f \in DrepFlatFields \cup TotalAndEpochFields :
              /\ out[f] # Undefined
              /\ RawOf(rawAction, f) = Undefined => out[f] = Some(0)
        /\ \A f \in SpoAdaFields :
              (out[f] = Undefined) = (rawAction.spo = Undefined)
        /\ \A p \in PassedThrough : out[p[1]] = Field(rawAction[p[2]], p[3])

(* a record without drep, spo and cc objects, totals and epochs was *)
(* transformed                                                      *)
C2_Witness ==
    /\ pc = "transformed"
    /\ rawAction.drep = Undefined
    /\ rawAction.spo = Undefined
    /\ rawAction.cc = Undefined
    /\ rawAction.totalYes = Undefined
    /\ rawAction.submissionEpoch = Undefined
    /\ Val(transformed).drepYesAda = Some(0)
    /\ Val(transformed).spoYesAda = Undefined

(* C15: the normalizer applied to its own output returns that output:      *)
(* transformGovernanceAction(transformGovernanceAction(x)) is              *)
(* transformGovernanceAction(x), and the same holds for                    *)
(* transformGovernanceActionDetail with its vote records; no ADA amount is *)
(* divided a second time.                                                  *)
C15_Idempotent ==
    pc \in {"retransformed", "retransformedDetail"} =>
        retransformed = transformed

(* a detail record with a DRep amount of 2 ADA, a title that got its      *)
(* default and two vote records went through the normalizer twice         *)
C15_Witness ==
    /\ pc = "retransformedDetail"
    /\ Field(rawAction.drep, "yesLovelace")
         = Some(DigitString(2 * LOVELACE_PER_ADA))
    /\ Val(transformed).drepYesAda = Some(2)
    /\ Val(retransformed).drepYesAda = Some(2)
    /\ Val(retransformed).title = Some(UntitledProposal)
    /\ Len(Val(Val(retransformed).votes)) = 2
    /\ Val(rawAction.votes)[1].voterId = Some(<<>>)
    /\ Val(Val(retransformed).votes)[1].drepId = Some(<<"o">>)

(* the ADA amount of a lovelace field: 0 when the field is absent or no *)
(* number, the millionth part otherwise                                 *)
AdaOf(lovelace) ==
    IF lovelace # Undefined /\ Val(lovelace).kind = "digits"
    THEN Val(lovelace).n \div LOVELACE_PER_ADA
    ELSE 0

AdaFieldPairs ==
    {<<"YesAda", "yesLovelace">>, <<"NoAda", "noLovelace">>,
     <<"AbstainAda", "abstainLovelace">>}

FlatAda(out, role, p) ==
    IF role = "drep"
    THEN CASE p[1] = "YesAda" -> out.drepYesAda
           [] p[1] = "NoAda" -> out.drepNoAda
           [] OTHER -> out.drepAbstainAda
    ELSE CASE p[1] = "YesAda" -> out.spoYesAda
           [] p[1] = "NoAda" -> out.spoNoAda
           [] OTHER -> out.spoAbstainAda

(* C16: the three DRep lovelace fields are converted for every record, to *)
(* 0 when the drep tally or the field is absent; the three SPO lovelace   *)
(* fields are converted only when the raw record has an spo tally, and    *)
(* without one spoYesAda, spoNoAda and spoAbstainAda are not computed.    *)
C16_ConvertedFields ==
    pc = "transformed" =>
        LET out == Val(transformed) IN
        \A p \in AdaFieldPairs :
            /\ FlatAda(out, "drep", p) = Some(AdaOf(Field(rawAction.drep, p[2])))
            /\ rawAction.drep = Undefined \/ Field(rawAction.drep, p[2]) = Undefined
                  => FlatAda(out, "drep", p) = Some(0)
            /\ rawAction.spo # Undefined =>
                  FlatAda(out, "spo", p) = Some(AdaOf(Val(rawAction.spo)[p[2]]))
            /\ rawAction.spo = Undefined => FlatAda(out, "spo", p) = Undefined

(* a record with a drep tally of 2 ADA yes and no "no" amount, and *)
(* without an spo tally                                            *)
C16_Witness ==
    /\ pc = "transformed"
    /\ Field(rawAction.drep, "yesLovelace")
         = Some(DigitString(2 * LOVELACE_PER_ADA))
    /\ Field(rawAction.drep, "noLovelace") = Undefined
    /\ rawAction.spo = Undefined
    /\ Val(transformed).drepYesAda = Some(2)
    /\ Val(transformed).drepNoAda = Some(0)
    /\ Val(transformed).spoYesAda = Undefined

DerivedAdaFields == {"yesAda", "noAda", "abstainAda"}

(* the nested tally is the raw tally with the three ADA amounts given *)
NestedKeepsRaw(raw, nested, yesAda, noAda, abstainAda) ==
    IF raw = Undefined THEN nested = Undefined
    ELSE /\ nested # Undefined
         /\ DOMAIN Val(nested) = DOMAIN Val(raw)
         /\ \A f \in DOMAIN Val(raw) \ DerivedAdaFields :
               Val(nested)[f] = Val(raw)[f]
         /\ Val(nested).yesAda = yesAda
         /\ Val(nested).noAda = noAda
         /\ Val(nested).abstainAda = abstainAda

(* C17: when the raw drep (spo) tally is present, the nested drep (spo)   *)
(* object of the output keeps every raw field and its yesAda, noAda and   *)
(* abstainAda are the flat drepYesAda, drepNoAda, drepAbstainAda          *)
(* (spoYesAda, spoNoAda, spoAbstainAda); when the raw tally is absent the *)
(* nested object is absent; cc is passed through unchanged.               *)
C17_NestedTallies ==
    pc = "transformed" =>
        LET out == Val(transformed) IN
        /\ NestedKeepsRaw(rawAction.drep, out.drep,
                          out.drepYesAda, out.drepNoAda, out.drepAbstainAda)
        /\ NestedKeepsRaw(rawAction.spo, out.spo,
                          out.spoYesAda, out.spoNoAda, out.spoAbstainAda)
        /\ out.cc = rawAction.cc

(* a record without a drep tally, with an spo tally of 3 ADA yes whose raw *)
(* yesAda said 7, and with a cc tally                                      *)
C17_Witness ==
    /\ pc = "transformed"
    /\ rawAction.drep = Undefined
    /\ Val(transformed).drep = Undefined
    /\ Field(rawAction.spo, "yesAda") = Some(7)
    /\ Field(rawAction.spo, "yesPercent") = Some(40)
    /\ Field(Val(transformed).spo, "yesAda") = Some(3)
    /\ Field(Val(transformed).spo, "yesPercent") = Some(40)
    /\ rawAction.cc # Undefined
    /\ Val(transformed).cc = rawAction.cc

(* the output array is the raw array mapped through transformVoteRecord *)
MappedInOrder(raw, out) ==
    /\ out # Undefined
    /\ raw = Undefined => Val(out) = <<>>
    /\ raw # Undefined =>
          /\ Len(Val(out)) = Len(Val(raw))
          /\ \A i \in 1..Len(Val(raw)) :
                Val(out)[i] = transformVoteRecord(Val(raw)[i])

(* C18: transformGovernanceActionDetail returns votes and ccVotes as      *)
(* sequences: the empty sequence for an absent raw array, and for a       *)
(* present one its elements mapped through transformVoteRecord, with the  *)
(* same length and order.                                                 *)
C18_VoteSequences ==
    pc = "transformedDetail" =>
        /\ MappedInOrder(rawAction.votes, Val(transformed).votes)
        /\ MappedInOrder(rawAction.ccVotes, Val(transformed).ccVotes)

(* two different vote records kept their places, and the absent ccVotes *)
(* became the empty sequence                                            *)
C18_Witness ==
    /\ pc = "transformedDetail"
    /\ rawAction.votes # Undefined
    /\ Len(Val(rawAction.votes)) = 2
    /\ Val(rawAction.votes)[1].voterId = Some(<<"d", "1">>)
    /\ Val(rawAction.votes)[2].voterId = Undefined
    /\ Val(Val(transformed).votes)[1].drepId = Some(<<"d", "1">>)
    /\ Val(Val(transformed).votes)[2].drepId = Undefined
    /\ rawAction.ccVotes = Undefined
    /\ Val(transformed).ccVotes = Some(<<>>)

(* the raw and the normalized vote records of a transformed detail record, *)
(* pair by pair                                                            *)
VotePairs ==
    LET pairs(raw, out) ==
            IF raw = Undefined THEN {}
            ELSE {<<Val(raw)[i], Val(out)[i]>> : i \in 1..Len(Val(raw))}
    IN pairs(rawAction.votes, Val(transformed).votes)
           \cup pairs(rawAction.ccVotes, Val(transformed).ccVotes)

PowerDefaults(raw, out) ==
    /\ out.votingPower
         = (IF raw.votingPower = Undefined THEN Some(DigitString(0))
            ELSE raw.votingPower)
    /\ out.votingPowerAda
         = (IF raw.votingPowerAda = Undefined THEN Some(0)
            ELSE raw.votingPowerAda)

(* C19 as stated: the normalized vote record has drepId equal to voterId   *)
(* and drepName equal to voterName whenever those raw fields are present,  *)
(* votingPower equal to the raw value or "0", and votingPowerAda equal to  *)
(* the raw value or 0.                                                     *)
C19_AliasesOfPresentFields ==
    pc = "transformedDetail" =>
        \A p \in VotePairs :
            /\ p[1].voterId # Undefined => p[2].drepId = p[1].voterId
            /\ p[1].voterName # Undefined => p[2].drepName = p[1].voterName
            /\ PowerDefaults(p[1], p[2])

NonEmptyText(text) == text # Undefined /\ Val(text) # <<>>

(* C19, amended: drepId is voterId when voterId is present and not empty,  *)
(* the raw drepId otherwise; drepName is voterName when that is present    *)
(* and not empty, else voterId when that is present and not empty, else    *)
(* the raw drepName; votingPower is the raw value or "0" when absent,      *)
(* votingPowerAda the raw value or 0 when absent.                          *)
C19_AliasFallbacks ==
    pc = "transformedDetail" =>
        \A p \in VotePairs :
            /\ p[2].drepId
                 = (IF NonEmptyText(p[1].voterId) THEN p[1].voterId
                    ELSE p[1].drepId)
            /\ p[2].drepName
                 = (IF NonEmptyText(p[1].voterName) THEN p[1].voterName
                    ELSE IF NonEmptyText(p[1].voterId) THEN p[1].voterId
                    ELSE p[1].drepName)
            /\ PowerDefaults(p[1], p[2])

(* a vote record with a voter id, an empty voter name, no aliases and no *)
(* voting power                                                          *)
C19_Witness ==
    /\ pc = "transformedDetail"
    /\ \E p \in VotePairs :
          /\ p[1].voterId = Some(<<"d", "1">>)
          /\ p[1].voterName = Some(<<>>)
          /\ p[1].drepName = Undefined
          /\ p[1].votingPower = Undefined
          /\ p[2].drepId = Some(<<"d", "1">>)
          /\ p[2].drepName = Some(<<"d", "1">>)
          /\ p[2].votingPower = Some(DigitString(0))
          /\ p[2].votingPowerAda = Some(0)

(* the text is the raw text when that is not empty, the default otherwise *)
TextOrDefault(raw, out, default) ==
    /\ NonEmptyText(out)
    /\ NonEmptyText(raw) => out = raw
    /\ ~NonEmptyText(raw) => Val(out) = default

(* C20: every record of the normalizer has a non-empty title and a      *)
(* non-empty constitutionality: "Untitled Proposal" and "Unspecified"   *)
(* when the raw value is absent or empty, the raw value otherwise.      *)
C20_TitleDefaults ==
    pc = "transformed" =>
        /\ TextOrDefault(rawAction.title, Val(transformed).title,
                         UntitledProposal)
        /\ TextOrDefault(rawAction.constitutionality,
                         Val(transformed).constitutionality, Unspecified)

(* a record with an empty title and a constitutionality of its own *)
C20_Witness ==
    /\ pc = "transformed"
    /\ rawAction.title = Some(<<>>)
    /\ rawAction.constitutionality = Some(<<"b">>)
    /\ Val(transformed).title = Some(UntitledProposal)
    /\ Val(transformed).constitutionality = Some(<<"b">>)

(* the lovelace strings of the raw record with the flat ADA amounts the *)
(* normalizer computed from them                                        *)
ConvertedAmounts ==
    LET out == Val(transformed)
        of(tally, role) ==
            IF tally = Undefined THEN {}
            ELSE {<<Val(tally)[p[2]], FlatAda(out, role, p)>> : p \in AdaFieldPairs}
    IN of(rawAction.drep, "drep") \cup of(rawAction.spo, "spo")

(* C21: lovelaceToAdaNumber returns 0 for undefined, for the empty string *)
(* and for a string whose number, divided by 1,000,000, is NaN or         *)
(* infinite; its result is always a finite number.                        *)
C21_AlwaysFinite ==
    pc = "transformed" =>
        \A c \in ConvertedAmounts :
            /\ c[2] # Undefined
            /\ Val(c[2]) \in Int
            /\ c[1] = Undefined => c[2] = Some(0)
            /\ c[1] # Undefined /\ Val(c[1]).kind = "empty" => c[2] = Some(0)
            /\ c[1] # Undefined /\ NumberOf(Val(c[1])).kind \in {"nan", "inf"}
                  => c[2] = Some(0)

(* a drep tally whose yes amount is beyond the range of a double, or no *)
(* number, or the empty string, next to an absent no amount             *)
C21_Witness ==
    /\ pc = "transformed"
    /\ rawAction.drep # Undefined
    /\ rawAction.spo # Undefined
    /\ Val(rawAction.drep).yesLovelace = Some(HugeString)
    /\ Val(rawAction.drep).noLovelace = Undefined
    /\ Val(rawAction.spo).noLovelace = Some(TextString)
    /\ Val(rawAction.spo).abstainLovelace = Some(DigitString(0))
    /\ Val(transformed).drepYesAda = Some(0)
    /\ Val(transformed).drepNoAda = Some(0)
    /\ Val(transformed).spoNoAda = Some(0)
    /\ Val(transformed).spoAbstainAda = Some(0)

----------------------------------------------------------------------------
(* Role eligibility of the detail page: [hash].tsx *)

(* lines 82-86; a string is a sequence of its characters *)
LEGACY_NON_APPLICABLE_DREP_ACTIONS ==
    <<(* "gov_action1k2je..05ecsn" *)
      <<"g", "o", "v", "_", "a", "c", "t", "i", "o", "n", "1", "k", "2", "j",
        "e", "r", "t", "p", "p", "n", "n", "n", "d", "e", "j", "j", "c", "g",
        "l", "s", "z", "f", "q", "q", "4", "y", "z", "w", "8", "e", "v", "z",
        "r", "d", "2", "n", "t", "6", "6", "r", "r", "6", "r", "q", "l", "z",
        "5", "4", "x", "p", "0", "z", "s", "q", "0", "5", "e", "c", "s", "n">>,
      (* "gov_action1286f..n850dw" *)
      <<"g", "o", "v", "_", "a", "c", "t", "i", "o", "n", "1", "2", "8", "6",
        "f", "t", "2", "3", "r", "7", "j", "e", "m", "8", "2", "5", "s", "4",
        "l", "0", "y", "5", "r", "n", "8", "s", "g", "a", "m", "0", "t", "z",
        "2", "c", "e", "0", "4", "l", "7", "a", "3", "8", "q", "m", "n", "h",
        "p", "3", "l", "9", "a", "6", "q", "q", "n", "8", "5", "0", "d", "w">>,
      (* "gov_action1pvv5..nmm525" *)
      <<"g", "o", "v", "_", "a", "c", "t", "i", "o", "n", "1", "p", "v", "v",
        "5", "w", "m", "j", "q", "h", "w", "a", "4", "u", "8", "5", "v", "u",
        "9", "f", "4", "y", "d", "m", "z", "u", "2", "m", "g", "t", "8", "n",
        "7", "e", "t", "9", "6", "7", "p", "h", "2", "u", "r", "h", "x", "5",
        "3", "r", "7", "0", "x", "u", "s", "q", "n", "m", "m", "5", "2", "5">>>>

(* lines 88-91 *)
LEGACY_NON_APPLICABLE_SPO_ACTIONS ==
    <<(* "gov_action1k2je..05ecsn" *)
      <<"g", "o", "v", "_", "a", "c", "t", "i", "o", "n", "1", "k", "2", "j",
        "e", "r", "t", "p", "p", "n", "n", "n", "d", "e", "j", "j", "c", "g",
        "l", "s", "z", "f", "q", "q", "4", "y", "z", "w", "8", "e", "v", "z",
        "r", "d", "2", "n", "t", "6", "6", "r", "r", "6", "r", "q", "l", "z",
        "5", "4", "x", "p", "0", "z", "s", "q", "0", "5", "e", "c", "s", "n">>,
      (* "gov_action1286f..n850dw" *)
      <<"g", "o", "v", "_", "a", "c", "t", "i", "o", "n", "1", "2", "8", "6",
        "f", "t", "2", "3", "r", "7", "j", "e", "m", "8", "2", "5", "s", "4",
        "l", "0", "y", "5", "r", "n", "8", "s", "g", "a", "m", "0", "t", "z",
        "2", "c", "e", "0", "4", "l", "7", "a", "3", "8", "q", "m", "n", "h",
        "p", "3", "l", "9", "a", "6", "q", "q", "n", "8", "5", "0", "d", "w">>>>

(* line 93 *)
LEGACY_NON_APPLICABLE_CC_ACTIONS == <<>>

(* line 98 *)
(* the committee table written with the enum keys *)
CC_NOT_APPLICABLE_KEYS == <<"NoConfidence", "UpdateCommittee">>

CC_NOT_APPLICABLE_TYPES == <<"No Confidence", "Update Committee">>

(* lines 103-107 *)
SPO_NOT_APPLICABLE_TYPES ==
    <<"New Constitution", "Protocol Parameter Change", "Treasury Withdrawals">>

(* list.some((actionId) => hash === actionId || hash.includes(actionId)) *)
SomeActionId(list, hash) ==
    \E i \in 1..Len(list) : hash = list[i] \/ Includes(hash, list[i])

(* lines 109-118 *)
isLegacyAction(hash) ==
    SomeActionId(LEGACY_NON_APPLICABLE_DREP_ACTIONS
                   \o LEGACY_NON_APPLICABLE_SPO_ACTIONS
                   \o LEGACY_NON_APPLICABLE_CC_ACTIONS, hash)

(* the type table consulted for legacy actions as well *)
isCcNotApplicableByTypeAlone(action) ==
    action.type \in Range(CC_NOT_APPLICABLE_TYPES)

(* lines 120-132 *)
isCcNotApplicable(action) ==
    IF SomeActionId(LEGACY_NON_APPLICABLE_CC_ACTIONS, action.hash) THEN TRUE
    ELSE IF ~isLegacyAction(action.hash)
         THEN action.type \in Range(CC_NOT_APPLICABLE_TYPES)
         ELSE FALSE

(* lines 134-143 *)
isDrepNotApplicable(action) ==
    IF SomeActionId(LEGACY_NON_APPLICABLE_DREP_ACTIONS, action.hash) THEN TRUE
    ELSE FALSE

(* the type table consulted before the override list *)
isSpoNotApplicableTypeFirst(action) ==
    IF action.type \in Range(SPO_NOT_APPLICABLE_TYPES) THEN TRUE
    ELSE SomeActionId(LEGACY_NON_APPLICABLE_SPO_ACTIONS, action.hash)

(* lines 145-157 *)
isSpoNotApplicable(action) ==
    IF SomeActionId(LEGACY_NON_APPLICABLE_SPO_ACTIONS, action.hash) THEN TRUE
    ELSE IF ~isLegacyAction(action.hash)
         THEN action.type \in Range(SPO_NOT_APPLICABLE_TYPES)
         ELSE FALSE

(* @/lib/governanceVotingEligibility: the capability table *)
canRoleVoteOnAction(type, role) ==
    CASE role = "DRep" -> TRUE
      [] role = "SPO" ->
            type \in {"NoConfidence", "UpdateCommittee",
                      "HardForkInitiation", "InfoAction"}
      [] role = "CC" -> type \notin {"NoConfidence", "UpdateCommittee"}

(* the roles a capability row allows, in the order DRep, SPO, CC *)
EligibleIn(can) ==
    LET allowed(role) == can[role] IN SelectSeq(<<"DRep", "SPO", "CC">>, allowed)

(* @/lib/governanceVotingEligibility *)
getEligibleRoles(type) ==
    EligibleIn([role \in VoterTypes |-> canRoleVoteOnAction(type, role)])

(* What the eligibility module answers for a type: the row of the table,   *)
(* and for a type that is none of the seven keys any row.                  *)
CapabilityRows(type) ==
    IF type \in Range(PROPOSAL_TYPES)
    THEN {[role \in VoterTypes |-> canRoleVoteOnAction(type, role)]}
    ELSE [VoterTypes -> BOOLEAN]

(* the memo returning curveRoleOptions, ["All", ...eligibleRoles] *)
EligibleRolesWithAll(action, can) == <<"All">> \o EligibleIn(can)

(* lines 255-258: the eligibleRoles memo, getEligibleRoles answering can *)
EligibleRolesMemo(action, can) ==
    IF action = Undefined THEN <<>> ELSE EligibleIn(can)

(* lines 522-530: allowDRep, allowSPO, allowCC *)
AllowRoles(action, can) ==
    [DRep |-> can["DRep"] /\ ~isDrepNotApplicable(action),
     SPO |-> can["SPO"] /\ ~isSpoNotApplicable(action),
     CC |-> can["CC"] /\ ~isCcNotApplicable(action)]

----------------------------------------------------------------------------
(* The detail page's role eligibility as a state machine *)

(* a hash that is the identifier, or holds it after, before or between *)
(* other characters                                                    *)
HashesWith(id) ==
    {id, <<"x">> \o id, id \o <<":", "0">>, <<"x">> \o id \o <<":", "0">>}

(* hashes that hold no legacy identifier; two of them miss one by a *)
(* character                                                        *)
OtherHashes ==
    {<<>>, <<"t", "x", ":", "0">>,
     Front(LEGACY_NON_APPLICABLE_DREP_ACTIONS[1]),
     Tail(LEGACY_NON_APPLICABLE_DREP_ACTIONS[3])}

ActionHashes ==
    OtherHashes \cup
    UNION {HashesWith(LEGACY_NON_APPLICABLE_DREP_ACTIONS[i]) : i \in 1..3}

(* the type keys and the type labels of the not-applicable lists *)
ActionTypes ==
    Range(PROPOSAL_TYPES) \cup Range(CC_NOT_APPLICABLE_TYPES)
        \cup Range(SPO_NOT_APPLICABLE_TYPES)

InitRoles ==
    /\ pc = "loaded"
    /\ selectedAction \in {Some(a) : a \in [hash : ActionHashes, type : ActionTypes]}
    /\ eligibleRoles = <<>>
    /\ allowRoles = Undefined
    /\ TimelineIdle
    /\ TableIdle
    /\ NormalizerIdle
    /\ RowIdle
    /\ SliceIdle

(* the render of GovernanceDetail with the action loaded *)
RenderRoles ==
    /\ pc = "loaded"
    /\ \E can \in CapabilityRows(Val(selectedAction).type) :
          /\ eligibleRoles' = EligibleRolesMemo(selectedAction, can)
          /\ allowRoles' = Some(AllowRoles(Val(selectedAction), can))
    /\ pc' = "shown"
    /\ UNCHANGED <<selectedAction, timelineVars, tableVars, normalizerVars,
                   rowVars, sliceVars>>

NextRoles == RenderRoles

SpecRoles == InitRoles /\ [][NextRoles]_vars

----------------------------------------------------------------------------
(* Claims about role eligibility *)

LegacyId(i) == LEGACY_NON_APPLICABLE_DREP_ACTIONS[i]

(* the hash equals or contains the i-th legacy identifier *)
HoldsLegacyId(hash, i) == hash = LegacyId(i) \/ Includes(hash, LegacyId(i))

(* the action with another type *)
OfType(action, type) == [action EXCEPT !.type = type]

(* C12: for a hash that equals or contains one of the two legacy           *)
(* identifiers of both override lists, isDrepNotApplicable and             *)
(* isSpoNotApplicable are true for every proposal type; for a hash that    *)
(* equals or contains the third legacy identifier, isDrepNotApplicable is  *)
(* true and isSpoNotApplicable is false for every proposal type.           *)
C12_LegacyOverrides ==
    pc = "shown" =>
        LET action == Val(selectedAction) IN
        /\ HoldsLegacyId(action.hash, 1) \/ HoldsLegacyId(action.hash, 2) =>
              /\ Val(allowRoles).DRep = FALSE /\ Val(allowRoles).SPO = FALSE
              /\ \A type \in ActionTypes :
                    /\ isDrepNotApplicable(OfType(action, type))
                    /\ isSpoNotApplicable(OfType(action, type))
        /\ HoldsLegacyId(action.hash, 3) =>
              /\ Val(allowRoles).DRep = FALSE
              /\ \A type \in ActionTypes :
                    /\ isDrepNotApplicable(OfType(action, type))
                    /\ ~isSpoNotApplicable(OfType(action, type))

(* the third legacy identifier inside a longer hash, with a type of the *)
(* SPO not-applicable list: DRep is disallowed by the override          *)
C12_Witness ==
    /\ pc = "shown"
    /\ Val(selectedAction).hash # LegacyId(3)
    /\ Includes(Val(selectedAction).hash, LegacyId(3))
    /\ Val(selectedAction).type = "Treasury Withdrawals"
    /\ ~isSpoNotApplicable(Val(selectedAction))
    /\ Val(allowRoles).DRep = FALSE

(* C13: for a hash holding no legacy identifier, isCcNotApplicable is true *)
(* exactly for the types "No Confidence" and "Update Committee" and        *)
(* isSpoNotApplicable exactly for "New Constitution", "Protocol Parameter  *)
(* Change" and "Treasury Withdrawals"; for a hash holding a legacy         *)
(* identifier isCcNotApplicable is false and isSpoNotApplicable is decided *)
(* by the SPO override list, whatever the type; isDrepNotApplicable is the *)
(* same for every type.                                                    *)
C13_TypeTable ==
    pc = "shown" =>
        LET action == Val(selectedAction)
            legacy == \E i \in 1..3 : HoldsLegacyId(action.hash, i)
        IN /\ ~legacy =>
                /\ isCcNotApplicable(action)
                     = (action.type \in {"No Confidence", "Update Committee"})
                /\ isSpoNotApplicable(action)
                     = (action.type \in {"New Constitution",
                                         "Protocol Parameter Change",
                                         "Treasury Withdrawals"})
           /\ legacy =>
                \A type \in ActionTypes :
                    /\ ~isCcNotApplicable(OfType(action, type))
                    /\ isSpoNotApplicable(OfType(action, type))
                         = (HoldsLegacyId(action.hash, 1)
                              \/ HoldsLegacyId(action.hash, 2))
           /\ \A type \in ActionTypes :
                 isDrepNotApplicable(OfType(action, type))
                     = isDrepNotApplicable(action)

(* a hash one character short of a legacy identifier, of type "No        *)
(* Confidence": the type table decides, and the committee is disallowed  *)
C13_Witness ==
    /\ pc = "shown"
    /\ Val(selectedAction).hash = Front(LegacyId(1))
    /\ Val(selectedAction).type = "No Confidence"
    /\ isCcNotApplicable(Val(selectedAction))
    /\ ~isSpoNotApplicable(Val(selectedAction))
    /\ Val(allowRoles).CC = FALSE

MaxCount == 2

Quotient(num, den) == [num |-> num, den |-> den]
Whole(n) == Quotient(n, 1)
IsWhole(q) == q.num % q.den = 0

(* Math.max(0, q) *)
FloorAtZero(q) == IF q.num < 0 THEN Whole(0) ELSE q

(* Math.round(q): the nearest whole number, a half going up *)
RoundQuotient(q) == Whole((2 * q.num + q.den) \div (2 * q.den))

(* parseNumeric(value): 0 for a missing or non-finite value *)
parseNumeric(value) ==
    IF value = Undefined THEN 0
    ELSE IF Val(value).kind = "finite" THEN Val(value).v
    ELSE 0

(* the abstain share of the implied total, before any floor: the total is *)
(* (yes + no) / (yes% + no%) * 100, the share is total * abstain% / 100,   *)
(* and abstain% is the complement of yes% + no% when it is not provided    *)
AbstainShare(yesValue, yesPercent, noValue, noPercent, abstainPercentOpt) ==
    LET percentSum == OrZero(yesPercent) + OrZero(noPercent)
        abstainPercent ==
            IF abstainPercentOpt = Undefined THEN 100 - percentSum
            ELSE Val(abstainPercentOpt)
    IN IF percentSum <= 0 THEN Whole(0)
       ELSE Quotient((OrZero(yesValue) + OrZero(noValue)) * abstainPercent,
                     percentSum)

deriveAbstainValueUnfloored(yesValue, yesPercent, noValue, noPercent, abstainPercentOpt) ==
    AbstainShare(yesValue, yesPercent, noValue, noPercent, abstainPercentOpt)

deriveAbstainValue(yesValue, yesPercent, noValue, noPercent, abstainPercentOpt) ==
    FloorAtZero(AbstainShare(yesValue, yesPercent, noValue, noPercent,
                             abstainPercentOpt))

deriveCcAbstainCount(yesCount, noCount, yesPercentOpt, noPercentOpt, abstainPercentOpt) ==
    FloorAtZero(RoundQuotient(AbstainShare(yesCount, yesPercentOpt, noCount,
                                           noPercentOpt, abstainPercentOpt)))

(* tally?.field *)
TallyField(tally, field) ==
    IF tally = Undefined THEN Undefined ELSE Val(tally)[field]

(* Math.max(0, 100 - yesPercent - noPercent) *)
PercentComplement(yesPercent, noPercent) ==
    IF 100 - yesPercent - noPercent < 0 THEN 0
    ELSE 100 - yesPercent - noPercent

(* GovernanceTable, the body of filteredActions.map: the abstain figures *)
RowStats(action) ==
    LET drepInfo == action.drep
        spoInfo == IF action.spoThreshold # Undefined THEN action.spo
                   ELSE Undefined
        ccInfo == action.cc
        drepYesPercent == OrZero(TallyField(drepInfo, "yesPercent"))
        drepNoPercent == OrZero(TallyField(drepInfo, "noPercent"))
        drepYesAda == parseNumeric(TallyField(drepInfo, "yesAda"))
        drepNoAda == parseNumeric(TallyField(drepInfo, "noAda"))
        spoYesPercent == OrZero(TallyField(spoInfo, "yesPercent"))
        spoNoPercent == OrZero(TallyField(spoInfo, "noPercent"))
        spoAbstainPercent ==
            NullishOr(TallyField(spoInfo, "abstainPercent"),
                      Some(PercentComplement(spoYesPercent, spoNoPercent)))
        spoYesAda == parseNumeric(TallyField(spoInfo, "yesAda"))
        spoNoAda == parseNumeric(TallyField(spoInfo, "noAda"))
        ccYesPercent == OrZero(TallyField(ccInfo, "yesPercent"))
        ccNoPercent == OrZero(TallyField(ccInfo, "noPercent"))
        ccAbstainPercent ==
            NullishOr(TallyField(ccInfo, "abstainPercent"),
                      Some(PercentComplement(ccYesPercent, ccNoPercent)))
    IN [drepAbstainAda |->
            deriveAbstainValue(Some(drepYesAda), Some(drepYesPercent),
                               Some(drepNoAda), Some(drepNoPercent),
                               TallyField(drepInfo, "abstainPercent")),
        spoAbstainAda |->
            deriveAbstainValue(Some(spoYesAda), Some(spoYesPercent),
                               Some(spoNoAda), Some(spoNoPercent),
                               spoAbstainPercent),
        ccAbstainCount |->
            IF TallyField(ccInfo, "abstainCount") # Undefined
            THEN Whole(Val(TallyField(ccInfo, "abstainCount")))
            ELSE deriveCcAbstainCount(TallyField(ccInfo, "yesCount"),
                                      TallyField(ccInfo, "noCount"),
                                      Some(ccYesPercent), Some(ccNoPercent),
                                      ccAbstainPercent)]

(* votes.filter((v) => v.voterType === "CC" && v.vote === vote).length *)
CcVoteCount(votes, votesCast) ==
    LET cast(v) == v.voterType = "CC" /\ v.vote \in votesCast
    IN Len(SelectSeq(votes, cast))

(* [hash].tsx, ccAbstainStats *)
CcAbstainStatsMemo(selected, votes) ==
    IF selected = Undefined
    THEN [percent |-> Whole(0), count |-> Whole(0), yesCount |-> 0,
          noCount |-> 0]
    ELSE IF CcVoteCount(votes, {"Yes", "No", "Abstain"}) = 0
    THEN LET cc == Val(selected).cc
             yesCountInner == OrZero(TallyField(cc, "yesCount"))
             noCountInner == OrZero(TallyField(cc, "noCount"))
             percent == OrZero(TallyField(cc, "abstainPercent"))
         IN [percent |-> Whole(percent),
             count |-> deriveCcAbstainCount(Some(yesCountInner),
                          Some(noCountInner), TallyField(cc, "yesPercent"),
                          TallyField(cc, "noPercent"), Some(percent)),
             yesCount |-> yesCountInner,
             noCount |-> noCountInner]
    ELSE [percent |-> Quotient(CcVoteCount(votes, {"Abstain"}) * 100,
                               CcVoteCount(votes, {"Yes", "No", "Abstain"})),
          count |-> Whole(CcVoteCount(votes, {"Abstain"})),
          yesCount |-> CcVoteCount(votes, {"Yes"}),
          noCount |-> CcVoteCount(votes, {"No"})]

(***************************************************************************)
(* The state machine of one table row and of the detail page opened from   *)
(* it.                                                                     *)
(***************************************************************************)

RowDrepTallies ==
    {Undefined} \cup
    {Some(t) : t \in
        [yesPercent : {Undefined, Some(0), Some(50), Some(60)},
         noPercent : {Undefined, Some(0), Some(50)},
         abstainPercent : {Undefined, Some(20)},
         yesAda : {Undefined, Some(Finite(7)), Some(NaN)},
         noAda : {Some(Finite(3))}]}

RowSpoTallies ==
    {Undefined} \cup
    {Some(t) : t \in
        [yesPercent : {Some(60)},
         noPercent : {Undefined, Some(50)},
         abstainPercent : {Undefined},
         yesAda : {Some(Finite(4))},
         noAda : {Undefined, Some(Infinity)}]}

RowCcTallies ==
    {Undefined} \cup
    {Some(t) : t \in
        [yesPercent : {Undefined, Some(60)},
         noPercent : {Some(0), Some(50)},
         abstainPercent : {Undefined, Some(30)},
         yesCount : {Undefined} \cup {Some(n) : n \in 0..MaxCount},
         noCount : {Undefined, Some(1)},
         abstainCount : {Undefined}]}
    \cup
    {Some([yesPercent |-> Some(60), noPercent |-> Some(0),
           abstainPercent |-> Undefined, yesCount |-> Some(1),
           noCount |-> Some(1), abstainCount |-> Some(1)])}

RowActions ==
    [drep : RowDrepTallies, spo : RowSpoTallies, cc : RowCcTallies,
     spoThreshold : {Undefined, Some(51)}]

CcVoteLists ==
    {<<>>,
     <<[voterType |-> "DRep", vote |-> "Abstain"]>>,
     <<[voterType |-> "CC", vote |-> "Abstain"],
       [voterType |-> "CC", vote |-> "No"],
       [voterType |-> "CC", vote |-> "Abstain"]>>}

InitRow ==
    /\ pc = "listed"
    /\ rowAction \in {Some(a) : a \in RowActions}
    /\ rowStats = Undefined
    /\ ccAbstainStats = Undefined
    /\ TimelineIdle
    /\ TableIdle
    /\ NormalizerIdle
    /\ RolesIdle
    /\ SliceIdle

(* the render of one row of GovernanceTable *)
RenderRow ==
    /\ pc = "listed"
    /\ rowStats' = Some(RowStats(Val(rowAction)))
    /\ pc' = "row"
    /\ UNCHANGED <<rowAction, ccAbstainStats, timelineVars, tableVars,
                   normalizerVars, rolesVars, sliceVars>>

(* a render of GovernanceDetail for the action of the row, before the     *)
(* detail is loaded (selected = Undefined) or after it                    *)
RenderCcAbstainStats(selected, votes) ==
    /\ pc = "row"
    /\ selectedAction' = selected
    /\ allVotes' = votes
    /\ ccAbstainStats' = Some(CcAbstainStatsMemo(selected, votes))
    /\ pc' = "detail"
    /\ UNCHANGED <<rowAction, rowStats, curveRoleFilter, votesWithDates,
                   voteTimelineData, eligibleRoles, allowRoles, tableVars,
                   normalizerVars, sliceVars>>

NextRow ==
    \/ RenderRow
    \/ \E selected \in {Undefined, rowAction}, votes \in CcVoteLists :
          RenderCcAbstainStats(selected, votes)

SpecRow == InitRow /\ [][NextRow]_vars

NonNegative(q) == q.den > 0 /\ q.num >= 0
IsZero(q) == q.den > 0 /\ q.num = 0
PercentSumOf(tally) ==
    OrZero(TallyField(tally, "yesPercent"))
        + OrZero(TallyField(tally, "noPercent"))

(* C22: deriveAbstainValue and deriveCcAbstainCount never return a         *)
(* negative value, whichever operands are present, absent or zero; both   *)
(* return 0 when yesPercent + noPercent is 0 or absent; and               *)
(* deriveCcAbstainCount returns a whole number for counts that are whole  *)
(* and not negative.                                                      *)
C22_AbstainNeverNegative ==
    /\ pc \in {"row", "detail"} =>
          LET action == Val(rowAction)
              stats == Val(rowStats)
              spoInfo == IF action.spoThreshold # Undefined THEN action.spo
                         ELSE Undefined
              derived == TallyField(action.cc, "abstainCount") = Undefined
          IN /\ NonNegative(stats.drepAbstainAda)
             /\ NonNegative(stats.spoAbstainAda)
             /\ PercentSumOf(action.drep) = 0 => IsZero(stats.drepAbstainAda)
             /\ PercentSumOf(spoInfo) = 0 => IsZero(stats.spoAbstainAda)
             /\ derived =>
                   /\ NonNegative(stats.ccAbstainCount)
                   /\ IsWhole(stats.ccAbstainCount)
                   /\ PercentSumOf(action.cc) = 0
                         => IsZero(stats.ccAbstainCount)
    /\ pc = "detail" =>
          LET stats == Val(ccAbstainStats)
          IN /\ NonNegative(stats.count)
             /\ IsWhole(stats.count)
             /\ /\ selectedAction # Undefined
                /\ CcVoteCount(allVotes, {"Yes", "No", "Abstain"}) = 0
                /\ PercentSumOf(Val(selectedAction).cc) = 0
                => IsZero(stats.count)

(* a row whose DRep percentages are 60 and 50 with no abstain percentage  *)
(* (the complement is -10) and whose committee share 2 * 30 / 110 is not  *)
(* whole: the DRep figure is 0 and the committee count is 1               *)
C22_Witness ==
    /\ pc = "detail"
    /\ TallyField(Val(rowAction).drep, "yesPercent") = Some(60)
    /\ TallyField(Val(rowAction).drep, "noPercent") = Some(50)
    /\ TallyField(Val(rowAction).drep, "abstainPercent") = Undefined
    /\ TallyField(Val(rowAction).drep, "yesAda") = Some(Finite(7))
    /\ Val(rowStats).drepAbstainAda = Whole(0)
    /\ selectedAction = rowAction
    /\ allVotes = <<>>
    /\ Val(rowAction).cc
         = Some([yesPercent |-> Some(60), noPercent |-> Some(50),
                 abstainPercent |-> Some(30), yesCount |-> Some(1),
                 noCount |-> Some(1), abstainCount |-> Undefined])
    /\ Val(ccAbstainStats).count = Whole(1)
    /\ Val(rowStats).ccAbstainCount = Whole(1)


(***************************************************************************)
(* The detail request: fetchGovernanceActionDetail, the thunk              *)
(* loadGovernanceActionDetail and the reducers of governanceSlice for it.  *)
(* A request is [proposalId, state, response]: state is "pending" until    *)
(* the thunk settles, then "fulfilled" or "rejected"; response is what the *)
(* server did, chosen when the thunk settles.                              *)
(***************************************************************************)

MaxRequests == 3

Proposals == {"gov_action1", "gov_action2"}

Responses == {"ok", "nullBody", "httpError", "networkError"}

NoResponse == "none"

Returned(value) == [kind |-> "returned", value |-> value, message |-> ""]
Thrown(message) == [kind |-> "thrown", value |-> Undefined,
                    message |-> message]

(* the detail the backend holds for a proposal *)
DetailOf(proposalId) == [proposalId |-> proposalId]

(* fetchApi(url): throws on a network failure and on a response that is *)
(* not OK, else returns the body                                        *)
fetchApi(proposalId, response) ==
    CASE response = "ok" -> Returned(Some(DetailOf(proposalId)))
      [] response = "nullBody" -> Returned(Undefined)
      [] response = "httpError" -> Thrown("API Error (500)")
      [] OTHER -> Thrown("Failed to fetch")

(* transformGovernanceActionDetail(data): a TypeError for the body null *)
TransformedBody(data) ==
    IF data.kind = "thrown" THEN data
    ELSE IF data.value = Undefined THEN Thrown("Cannot read properties")
    ELSE data

fetchGovernanceActionDetailUncaught(proposalId, response) ==
    TransformedBody(fetchApi(proposalId, response))

(* fetchGovernanceActionDetail(proposalId): null for anything thrown *)
fetchGovernanceActionDetail(proposalId, response) ==
    LET result == TransformedBody(fetchApi(proposalId, response))
    IN IF result.kind = "thrown" THEN Returned(Undefined) ELSE result

NotFound == "Governance action not found"

(* the payload creator of loadGovernanceActionDetail: the action the thunk *)
(* dispatches when it settles                                              *)
loadGovernanceActionDetail(proposalId, response) ==
    LET detail == fetchGovernanceActionDetail(proposalId, response)
    IN IF detail.kind = "thrown"
       THEN [type |-> "rejected", payload |-> Some(detail.message)]
       ELSE IF detail.value = Undefined
       THEN [type |-> "rejected", payload |-> Some(NotFound)]
       ELSE [type |-> "fulfilled", payload |-> detail.value]

DetailState ==
    [selectedAction |-> selectedAction, isLoadingDetail |-> isLoadingDetail,
     detailError |-> detailError]

(* .addCase(loadGovernanceActionDetail.pending, ...) *)
detailPending(state) ==
    [state EXCEPT !.isLoadingDetail = TRUE, !.detailError = Undefined]

(* .addCase(loadGovernanceActionDetail.fulfilled, ...) *)
detailFulfilled(state, payload) ==
    [state EXCEPT !.isLoadingDetail = FALSE, !.selectedAction = payload]

detailRejectedClearing(state, payload) ==
    [state EXCEPT !.isLoadingDetail = FALSE, !.detailError = payload,
                  !.selectedAction = Undefined]

(* .addCase(loadGovernanceActionDetail.rejected, ...) *)
detailRejected(state, payload) ==
    [state EXCEPT !.isLoadingDetail = FALSE, !.detailError = payload]

(* [hash].tsx: showLoadingState, showErrorState *)
ShowLoadingState == isLoadingDetail /\ selectedAction = Undefined
ShowErrorState == detailError # Undefined /\ selectedAction = Undefined

InitSlice ==
    /\ pc = "store"
    /\ selectedAction = Undefined
    /\ eligibleRoles = <<>>
    /\ allowRoles = Undefined
    /\ SliceIdle
    /\ TimelineIdle
    /\ TableIdle
    /\ NormalizerIdle
    /\ RowIdle

StoreDetailState(state) ==
    /\ selectedAction' = state.selectedAction
    /\ isLoadingDetail' = state.isLoadingDetail
    /\ detailError' = state.detailError

(* dispatch(loadGovernanceActionDetail(hash)): the thunk dispatches pending *)
(* at once and starts the fetch                                            *)
DispatchLoadDetail(proposalId) ==
    /\ pc = "store"
    /\ Len(detailRequests) < MaxRequests
    /\ detailRequests' =
          Append(detailRequests, [proposalId |-> proposalId,
                                  state |-> "pending",
                                  response |-> NoResponse])
    /\ StoreDetailState(detailPending(DetailState))
    /\ UNCHANGED <<pc, eligibleRoles, allowRoles, timelineVars, tableVars,
                   normalizerVars, rowVars>>

(* the fetch of request i ends and its thunk dispatches fulfilled or *)
(* rejected                                                          *)
SettleLoadDetail(i, response) ==
    /\ pc = "store"
    /\ i \in 1..Len(detailRequests)
    /\ detailRequests[i].state = "pending"
    /\ LET settled == loadGovernanceActionDetail(detailRequests[i].proposalId,
                                                 response)
       IN /\ detailRequests' =
                [detailRequests EXCEPT ![i].state = settled.type,
                                       ![i].response = response]
          /\ IF settled.type = "fulfilled"
             THEN StoreDetailState(detailFulfilled(DetailState,
                                                   settled.payload))
             ELSE StoreDetailState(detailRejected(DetailState,
                                                  settled.payload))
    /\ UNCHANGED <<pc, eligibleRoles, allowRoles, timelineVars, tableVars,
                   normalizerVars, rowVars>>

NextSlice ==
    \/ \E proposalId \in Proposals : DispatchLoadDetail(proposalId)
    \/ \E i \in 1..MaxRequests, response \in Responses :
          SettleLoadDetail(i, response)

SpecSlice == InitSlice /\ [][NextSlice]_vars

RequestsIn(states) ==
    {i \in 1..Len(detailRequests) : detailRequests[i].state \in states}

(* request i settles in this step *)
Settles(i) ==
    /\ i \in RequestsIn({"pending"})
    /\ detailRequests'[i].state # "pending"

(* C23: once a loadGovernanceActionDetail request has been fulfilled,     *)
(* selectedAction stays non-null under every later pending, fulfilled or  *)
(* rejected event of the thunk (a rejected request leaves selectedAction  *)
(* as it was), so the page shows neither the loading view nor the error   *)
(* view again.                                                            *)
C23_StaysLoaded ==
    [][/\ RequestsIn({"fulfilled"}) # {} =>
            /\ selectedAction # Undefined
            /\ selectedAction' # Undefined
            /\ ~ShowLoadingState'
            /\ ~ShowErrorState'
       /\ \A i \in RequestsIn({"pending"}) :
            detailRequests'[i].state = "rejected"
                => selectedAction' = selectedAction]_vars

(* a first request fulfilled, a second one rejected and a third one still *)
(* pending: the detail is kept while a load is on                         *)
C23_Witness ==
    /\ Len(detailRequests) = 3
    /\ detailRequests[1].state = "fulfilled"
    /\ detailRequests[2].state = "rejected"
    /\ detailRequests[3].state = "pending"
    /\ selectedAction = Some(DetailOf(detailRequests[1].proposalId))
    /\ isLoadingDetail
    /\ ~ShowLoadingState


(* C24: a failed detail fetch (a network error, a response that is not    *)
(* OK) becomes an absence: fetchGovernanceActionDetail returns null, the  *)
(* thunk rejects with "Governance action not found", detailError is       *)
(* exactly that text, and a fulfilled request never stores null in        *)
(* selectedAction.                                                        *)
C24_FailureIsAbsence ==
    [][\A i \in RequestsIn({"pending"}) :
          Settles(i) =>
             LET proposalId == detailRequests[i].proposalId
                 response == detailRequests'[i].response
             IN /\ response # "ok" =>
                      /\ fetchGovernanceActionDetail(proposalId, response)
                           = Returned(Undefined)
                      /\ loadGovernanceActionDetail(proposalId, response)
                           = [type |-> "rejected", payload |-> Some(NotFound)]
                      /\ detailRequests'[i].state = "rejected"
                      /\ detailError' = Some(NotFound)
                /\ detailRequests'[i].state = "fulfilled" =>
                      /\ response = "ok"
                      /\ selectedAction' # Undefined]_vars

(* one request answered with an HTTP error and one lost on the network:  *)
(* both rejected, nothing selected, the error is the not-found text      *)
C24_Witness ==
    /\ Len(detailRequests) = 2
    /\ detailRequests[1].response = "httpError"
    /\ detailRequests[2].response = "networkError"
    /\ detailRequests[1].state = "rejected"
    /\ detailRequests[2].state = "rejected"
    /\ selectedAction = Undefined
    /\ detailError = Some(NotFound)
    /\ ShowErrorState


(* C25: in every reachable state of the slice isLoadingDetail is true     *)
(* whenever at least one dispatched loadGovernanceActionDetail request    *)
(* has not settled, also when two requests overlap and one of them        *)
(* settles before the other.                                              *)
C25_LoadingWhilePending ==
    RequestsIn({"pending"}) # {} => isLoadingDetail

(* C26: when the requests for two different proposals overlap and both    *)
(* settle, selectedAction holds the detail of the request dispatched      *)
(* last: the late fulfilled answer to an earlier request does not         *)
(* overwrite it, and the late rejection of an earlier request does not    *)
(* leave detailError set once the last request was fulfilled.             *)
C26_LatestRequestWins ==
    [][\A i \in RequestsIn({"pending"}) :
          LET last == Len(detailRequests)
          IN /\ Settles(i)
             /\ i < last
             /\ detailRequests[i].proposalId
                  # detailRequests[last].proposalId
             /\ detailRequests[last].state = "fulfilled"
             /\ RequestsIn({"pending"}) = {i}
             => /\ selectedAction'
                     = Some(DetailOf(detailRequests[last].proposalId))
                /\ detailError' = Undefined]_vars


(***************************************************************************)
(* The type and status selections: the reducers setSelectedTypes,          *)
(* setSelectedStatuses and resetFilters of governanceSlice and the         *)
(* handlers of GovernanceTable that dispatch them.  The two selections are *)
(* separate fields and no handler of one menu writes the other, so a       *)
(* behaviour works one menu: pc tells which.                               *)
(***************************************************************************)

MaxPayload == 2

(* Array.from(new Set(list)): the first occurrence of each element, in order *)
RECURSIVE ArrayFromSet(_)
ArrayFromSet(list) ==
    IF list = <<>> THEN <<>>
    ELSE LET front == ArrayFromSet(Front(list))
         IN IF Last(list) \in Range(front) THEN front
            ELSE Append(front, Last(list))

setSelectedKeepingAll(payload) == payload

(* the reducers setSelectedTypes and setSelectedStatuses: the new field *)
setSelected(payload) == ArrayFromSet(payload)

(* list.filter((item) => item !== value) *)
Without(list, value) ==
    LET keep(item) == item # value IN SelectSeq(list, keep)

(* handleToggleType, handleToggleStatus: nextSelection *)
NextSelection(selection, value) ==
    IF value \in Range(selection) THEN Without(selection, value)
    ELSE Append(selection, value)

(* the payloads a dispatch of setSelectedTypes / setSelectedStatuses can *)
(* carry: any list of options, repeats included                          *)
Payloads(options) ==
    UNION {[1..k -> Range(options)] : k \in 0..MaxPayload}

InitFilters ==
    /\ pc \in {"typeMenu", "statusMenu"}
    /\ actions = <<>>
    /\ selectedTypes = PROPOSAL_TYPES
    /\ selectedStatuses = STATUS_OPTIONS
    /\ searchQuery = <<>>
    /\ sortedActions = <<>>
    /\ candidateList = <<>>
    /\ filteredActions = <<>>
    /\ TimelineIdle
    /\ NormalizerIdle
    /\ RolesIdle
    /\ RowIdle
    /\ SliceIdle

FiltersRest ==
    UNCHANGED <<pc, actions, searchQuery, sortedActions, candidateList,
                filteredActions, timelineVars, normalizerVars, rolesVars,
                rowVars, sliceVars>>

(* dispatch(setSelectedTypes(payload)) *)
SetSelectedTypes(payload) ==
    /\ pc = "typeMenu"
    /\ selectedTypes' = setSelected(payload)
    /\ UNCHANGED selectedStatuses
    /\ FiltersRest

(* dispatch(setSelectedStatuses(payload)) *)
SetSelectedStatuses(payload) ==
    /\ pc = "statusMenu"
    /\ selectedStatuses' = setSelected(payload)
    /\ UNCHANGED selectedTypes
    /\ FiltersRest

handleToggleType(type) ==
    /\ pc = "typeMenu"
    /\ selectedTypes' = setSelected(NextSelection(selectedTypes, type))
    /\ UNCHANGED selectedStatuses
    /\ FiltersRest

handleSelectAll ==
    /\ pc = "typeMenu"
    /\ selectedTypes' = setSelected(PROPOSAL_TYPES)
    /\ UNCHANGED selectedStatuses
    /\ FiltersRest

handleToggleAll(checked) ==
    /\ pc = "typeMenu"
    /\ selectedTypes' = IF checked THEN setSelected(PROPOSAL_TYPES)
                        ELSE setSelected(<<>>)
    /\ UNCHANGED selectedStatuses
    /\ FiltersRest

handleToggleStatus(status) ==
    /\ pc = "statusMenu"
    /\ selectedStatuses' = setSelected(NextSelection(selectedStatuses, status))
    /\ UNCHANGED selectedTypes
    /\ FiltersRest

handleSelectAllStatuses ==
    /\ pc = "statusMenu"
    /\ selectedStatuses' = setSelected(STATUS_OPTIONS)
    /\ UNCHANGED selectedTypes
    /\ FiltersRest

handleToggleAllStatuses(checked) ==
    /\ pc = "statusMenu"
    /\ selectedStatuses' = IF checked THEN setSelected(STATUS_OPTIONS)
                           ELSE setSelected(<<>>)
    /\ UNCHANGED selectedTypes
    /\ FiltersRest

(* dispatch(resetFilters()): state.filters = initialState.filters *)
resetFilters ==
    /\ pc \in {"typeMenu", "statusMenu"}
    /\ selectedTypes' = PROPOSAL_TYPES
    /\ selectedStatuses' = STATUS_OPTIONS
    /\ FiltersRest

NextFilters ==
    \/ \E payload \in Payloads(PROPOSAL_TYPES) : SetSelectedTypes(payload)
    \/ \E payload \in Payloads(STATUS_OPTIONS) : SetSelectedStatuses(payload)
    \/ \E type \in Range(PROPOSAL_TYPES) : handleToggleType(type)
    \/ handleSelectAll
    \/ \E checked \in BOOLEAN : handleToggleAll(checked)
    \/ \E status \in Range(STATUS_OPTIONS) : handleToggleStatus(status)
    \/ handleSelectAllStatuses
    \/ \E checked \in BOOLEAN : handleToggleAllStatuses(checked)
    \/ resetFilters

SpecFilters == InitFilters /\ [][NextFilters]_vars

NoRepeats(list) == \A i, j \in 1..Len(list) : list[i] = list[j] => i = j

(* C27: after any sequence of setSelectedTypes, handleToggleType,         *)
(* handleToggleAll, handleSelectAll and resetFilters from the initial     *)
(* state, selectedTypes holds no type twice; so the all-types tests of    *)
(* the table (selectionSet.size = PROPOSAL_TYPES.length and               *)
(* selectedTypes.length = PROPOSAL_TYPES.length) are true exactly when    *)
(* every proposal type is selected.  The same for selectedStatuses with   *)
(* setSelectedStatuses and STATUS_OPTIONS.                                *)
C27_SelectionsHaveNoRepeats ==
    pc \in {"typeMenu", "statusMenu"} =>
        /\ NoRepeats(selectedTypes)
        /\ (Cardinality(Range(selectedTypes)) = Len(PROPOSAL_TYPES))
             = (Range(PROPOSAL_TYPES) \subseteq Range(selectedTypes))
        /\ (Len(selectedTypes) = Len(PROPOSAL_TYPES))
             = (Range(PROPOSAL_TYPES) \subseteq Range(selectedTypes))
        /\ NoRepeats(selectedStatuses)
        /\ (Len(selectedStatuses) = Len(STATUS_OPTIONS))
             = (Range(STATUS_OPTIONS) \subseteq Range(selectedStatuses))

(* all types but the first two, the second-last toggled off and on again: *)
(* five types in a new order, and neither all-types test is true          *)
C27_Witness ==
    /\ pc = "typeMenu"
    /\ Len(selectedTypes) = Len(PROPOSAL_TYPES) - 2
    /\ selectedTypes[1] = PROPOSAL_TYPES[3]
    /\ Last(selectedTypes) = PROPOSAL_TYPES[Len(PROPOSAL_TYPES) - 1]
    /\ NoRepeats(selectedTypes)
    /\ Cardinality(Range(selectedTypes)) # Len(PROPOSAL_TYPES)


(***************************************************************************)
(* Further claims about the table                                          *)
(***************************************************************************)

MatchesQuery(a) ==
    IsBlank(searchQuery) \/ ContainsIgnoringCase(a.title, searchQuery)

(* C28: for fixed actions, selected types and selected statuses, the       *)
(* output for a search query q is the output for the empty query filtered  *)
(* by q: the search never brings back an action the curation by type       *)
(* dropped, so a status-matching action of a selected type whose title     *)
(* matches q is absent from the output when it is not the representative   *)
(* of its type.                                                            *)
C28_SearchFiltersEmptyQueryOutput ==
    pc = "rendered" =>
        LET unsearched == FilteredActions(sortedActions, selectedTypes,
                                          selectedStatuses, <<>>)
        IN /\ filteredActions = SelectSeq(unsearched, MatchesQuery)
           /\ \A a \in Range(actions) :
                 /\ StatusMatches(a)
                 /\ a.type \in Range(selectedTypes)
                 /\ MatchesQuery(a)
                 /\ ~IsRepresentative(a)
                 => a \notin Range(filteredActions)

(* two status-matching Treasury actions, Treasury selected, the query     *)
(* matching only the title of the one that is not the representative: the *)
(* output is empty                                                        *)
C28_Witness ==
    /\ pc = "rendered"
    /\ ~IsBlank(searchQuery)
    /\ "Treasury" \in Range(selectedTypes)
    /\ \E a, b \in MatchingOfType("Treasury") :
          /\ IsRepresentative(a)
          /\ ~MatchesQuery(a)
          /\ ~IsRepresentative(b)
          /\ MatchesQuery(b)
    /\ filteredActions = <<>>
    /\ Len(candidateList) = 1


(* C29: whenever the fallback branch of the table filter is taken (no      *)
(* selected showcase type has a status-matching action), its result holds  *)
(* no action of a showcase type; so with a proper subset of the types      *)
(* selected, or none, the fallback result is the empty list, and only with *)
(* all types selected can it hold actions, of types outside the showcase   *)
(* list.                                                                   *)
C29_FallbackHasNoShowcaseType ==
    (pc = "rendered" /\ RepresentedTypes = {}) =>
        /\ \A k \in 1..Len(candidateList) :
              candidateList[k].type \notin ShowcaseTypes
        /\ ~AllTypesSelected => candidateList = <<>>
        /\ candidateList # <<>> =>
              /\ AllTypesSelected
              /\ candidateList = SortedExtras

(* all types selected, a Treasury action whose status is not selected and *)
(* two status-matching actions of another type: the fallback keeps the    *)
(* two                                                                    *)
C29_Witness ==
    /\ pc = "rendered"
    /\ RepresentedTypes = {}
    /\ AllTypesSelected
    /\ \E a \in Range(actions) : a.type = "Treasury" /\ ~StatusMatches(a)
    /\ Len(candidateList) = 2
    /\ \A k \in 1..2 : candidateList[k].type = "Other"


(***************************************************************************)
(* A further claim about the roles of the detail page                      *)
(***************************************************************************)

(* C30: for an action that matches no legacy identifier and whose type is  *)
(* one of the seven enum keys, isSpoNotApplicable and isCcNotApplicable    *)
(* are both false, no enum key being one of the labels of the              *)
(* not-applicable lists; for such an action allowSPO and allowCC of the    *)
(* detail view equal canRoleVoteOnAction(type, role).                      *)
C30_KeyTypesNeverNotApplicable ==
    /\ Range(PROPOSAL_TYPES)
          \cap (Range(CC_NOT_APPLICABLE_TYPES)
                  \cup Range(SPO_NOT_APPLICABLE_TYPES)) = {}
    /\ (/\ pc = "shown"
        /\ ~isLegacyAction(Val(selectedAction).hash)
        /\ Val(selectedAction).type \in Range(PROPOSAL_TYPES)) =>
          LET action == Val(selectedAction)
          IN /\ ~isSpoNotApplicable(action)
             /\ ~isCcNotApplicable(action)
             /\ Val(allowRoles).SPO = canRoleVoteOnAction(action.type, "SPO")
             /\ Val(allowRoles).CC = canRoleVoteOnAction(action.type, "CC")

(* a NoConfidence action under a hash one character short of a legacy    *)
(* identifier: no role is marked not applicable, SPO may vote, CC not    *)
C30_Witness ==
    /\ pc = "shown"
    /\ Val(selectedAction).hash = Front(LegacyId(1))
    /\ Val(selectedAction).type = "NoConfidence"
    /\ ~isCcNotApplicable(Val(selectedAction))
    /\ ~isSpoNotApplicable(Val(selectedAction))
    /\ Val(allowRoles).SPO
    /\ ~Val(allowRoles).CC

====
